---------------------------- MODULE Spec2Model ----------------------------
(* A model of the Syosetu novel scraper: the site parsers                   *)
(* (src/site_parsers.py), the translation provider (src/translator.py) and  *)
(* the orchestrator (src/main.py).                                          *)
(*                                                                          *)
EXTENDS Integers, Sequences, FiniteSets, TLC

VARIABLES
    site_type,            \* SyosetuScraper.site_type: which parser get_parser built
    translation_config,   \* BaseSiteParser.translation_config
    soup,                 \* the parsed document handed to the parser
    args,                 \* the remaining arguments of the call
    provider,             \* what the translation backend (or the site) answered during the call
    ret,                  \* the value returned (or the exception raised) by the call
    texts,                \* batch_translate: the input list
    max_retries,          \* DeepTranslator.max_retries
    concurrent_requests,  \* DeepTranslator.concurrent_requests
    backend,              \* the translation backend stub behind DeepTranslator.translator
    task,                 \* per input text: the state of its translate_text call
    results,              \* batch_translate: the result list being filled
    bpc,                  \* batch_translate / translate_text: position of the caller
    chapters_to_download, \* download_chapters: the fetched chapters
    downloads,            \* the files written to the downloads directory
    DEFAULT_CONFIG,       \* config.DEFAULT_CONFIG: the module-level dict and its nested dicts
    config_file           \* ~/.syosetu_scraper/config.json

parserVars == <<site_type, translation_config, soup, args, provider, ret>>
batchVars == <<texts, max_retries, concurrent_requests, backend, task, results, bpc>>
downloadVars == <<chapters_to_download, downloads>>
configVars == <<DEFAULT_CONFIG, config_file>>
vars == <<site_type, translation_config, soup, args, provider, ret,
          texts, max_retries, concurrent_requests, backend, task, results, bpc,
          chapters_to_download, downloads, DEFAULT_CONFIG, config_file>>

(***************************************************************************)
(* Text primitives (Python str operations).  A text is the run-length      *)
(* encoding of a character string: a sequence of runs <<c, n>>, n >= 1     *)
(* copies of the character c, in which adjacent runs hold different        *)
(* characters.  Two texts are equal exactly when the strings are.          *)
(***************************************************************************)
NL == "\n"

\* Python None, and the marker of a raised exception: values that are no text.
None == << <<"<None>", 0>> >>
Raised == << <<"<raise>", 0>> >>

\* c * n
Rep(c, n) == IF n = 0 THEN <<>> ELSE << <<c, n>> >>

MinOf(S) == CHOOSE x \in S : \A y \in S : x <= y
MaxOf(S) == CHOOSE x \in S : \A y \in S : x >= y

\* a + b
Cat(a, b) ==
    IF a = <<>> THEN b
    ELSE IF b = <<>> THEN a
    ELSE IF a[Len(a)][1] = b[1][1]
         THEN SubSeq(a, 1, Len(a) - 1) \o << <<b[1][1], a[Len(a)][2] + b[1][2]>> >> \o Tail(b)
         ELSE a \o b

\* the text of a sequence of runs that need not be canonical
RECURSIVE Norm(_)
Norm(runs) ==
    IF runs = <<>> THEN <<>>
    ELSE IF Len(runs) = 1 THEN Rep(runs[1][1], runs[1][2])
    ELSE LET half == Len(runs) \div 2
         IN Cat(Norm(SubSeq(runs, 1, half)), Norm(SubSeq(runs, half + 1, Len(runs))))

\* the text of a string given character by character
Str(chars) == Norm([i \in 1..Len(chars) |-> <<chars[i], 1>>])

\* len(s)
RECURSIVE TextLen(_)
TextLen(s) == IF s = <<>> THEN 0 ELSE s[1][2] + TextLen(Tail(s))

\* s[:k] and s[k:]
RECURSIVE Take(_, _)
Take(s, k) ==
    IF k <= 0 \/ s = <<>> THEN <<>>
    ELSE IF s[1][2] <= k THEN <<s[1]>> \o Take(Tail(s), k - s[1][2])
    ELSE << <<s[1][1], k>> >>

RECURSIVE Drop(_, _)
Drop(s, k) ==
    IF k <= 0 \/ s = <<>> THEN s
    ELSE IF s[1][2] <= k THEN Drop(Tail(s), k - s[1][2])
    ELSE << <<s[1][1], s[1][2] - k>> >> \o Tail(s)

\* s[i:j]
Slice(s, i, j) == Take(Drop(s, i), j - i)

\* sep.join(parts)
RECURSIVE Join(_, _)
Join(parts, sep) ==
    IF parts = <<>> THEN <<>>
    ELSE IF Len(parts) = 1 THEN parts[1]
    ELSE Cat(Cat(parts[1], sep), Join(Tail(parts), sep))

Whitespace == {" ", NL, "\t"}

\* str.isspace(): non-empty and all whitespace
IsSpace(s) == Len(s) > 0 /\ \A i \in 1..Len(s) : s[i][1] \in Whitespace

\* str.strip()
Strip(s) ==
    LET keep == {i \in 1..Len(s) : s[i][1] \notin Whitespace}
    IN IF keep = {} THEN <<>> ELSE SubSeq(s, MinOf(keep), MaxOf(keep))

\* s with every run of a character of alphabet written as single characters,
\* so that a search for a string over alphabet can proceed item by item
RECURSIVE Expand(_, _)
Expand(s, alphabet) ==
    IF s = <<>> THEN <<>>
    ELSE IF Len(s) = 1
    THEN (IF s[1][1] \in alphabet THEN [i \in 1..s[1][2] |-> <<s[1][1], 1>>] ELSE s)
    ELSE LET half == Len(s) \div 2
         IN Expand(SubSeq(s, 1, half), alphabet) \o Expand(SubSeq(s, half + 1, Len(s)), alphabet)

Chars(s) == {s[i][1] : i \in 1..Len(s)}

\* str.split('\n')
RECURSIVE SplitItems(_)
SplitItems(items) ==
    LET nls == {i \in 1..Len(items) : items[i][1] = NL}
    IN IF nls = {} THEN <<items>>
       ELSE LET j == MinOf(nls)
            IN <<SubSeq(items, 1, j - 1)>> \o SplitItems(SubSeq(items, j + 1, Len(items)))

SplitLines(s) == SplitItems(Expand(s, {NL}))

MatchAt(items, old, i) ==
    /\ i + Len(old) - 1 <= Len(items)
    /\ \A k \in 1..Len(old) : items[i + k - 1] = old[k]

\* the scan of str.replace: the non-overlapping occurrences, left to right
RECURSIVE ReplaceFrom(_, _, _, _)
ReplaceFrom(items, old, new, i) ==
    LET starts == {j \in i..Len(items) : MatchAt(items, old, j)}
    IN IF starts = {} THEN SubSeq(items, i, Len(items))
       ELSE LET j == MinOf(starts)
            IN SubSeq(items, i, j - 1) \o new \o ReplaceFrom(items, old, new, j + Len(old))

\* s.replace(old, new), for a non-empty old
Replace(s, old, new) ==
    IF Chars(old) \subseteq Chars(s)
    THEN Norm(ReplaceFrom(Expand(s, Chars(old)), Expand(old, Chars(old)), new, 1))
    ELSE s   \* a character of old is missing from s: no occurrence

\* '\n\n', the paragraph separator
Sep == Rep(NL, 2)

\* ' PARAGRAPH_BREAK '
Marker == Str(<<" ", "P", "A", "R", "A", "G", "R", "A", "P", "H", "_",
                "B", "R", "E", "A", "K", " ">>)

\* "No content available"
NoContent == Str(<<"N", "o", " ", "c", "o", "n", "t", "e", "n", "t", " ",
                   "a", "v", "a", "i", "l", "a", "b", "l", "e">>)

\* "Unknown Chapter"
UnknownChapter == Str(<<"U", "n", "k", "n", "o", "w", "n", " ",
                        "C", "h", "a", "p", "t", "e", "r">>)

(***************************************************************************)
(* The chunker (the loop inside every parse_chapter_content)               *)
(***************************************************************************)
chunk_limit == 1000

\* the paragraphs read from the content container
Paragraphs(content_elem) ==
    LET ps == SelectSeq([i \in 1..Len(content_elem.p) |-> Strip(content_elem.p[i])],
                        LAMBDA t : t # <<>>)
        lines == SplitLines(content_elem.text)
    IN IF ps # <<>> THEN ps
       ELSE SelectSeq([i \in 1..Len(lines) |-> Strip(lines[i])], LAMBDA t : t # <<>>)

ShouldCloseDropLength(current_length, paragraph, current_chunk) ==
    current_length + 2 > chunk_limit /\ current_chunk # <<>>

\* the test that closes the current chunk before a paragraph is added
ShouldClose(current_length, paragraph, current_chunk) ==
    current_length + TextLen(paragraph) + 2 > chunk_limit /\ current_chunk # <<>>

LastChunkDropped(groups, current_chunk) == groups

\* after the loop: the last chunk is added if it is not empty
LastChunk(groups, current_chunk) ==
    IF current_chunk # <<>> THEN Append(groups, current_chunk) ELSE groups

\* the loop over the paragraphs; groups holds the closed chunks, each still
\* a list of paragraphs
RECURSIVE ChunkLoop(_, _, _, _, _)
ChunkLoop(paragraphs, i, groups, current_chunk, current_length) ==
    IF i > Len(paragraphs) THEN LastChunk(groups, current_chunk)
    ELSE LET paragraph == paragraphs[i]
             close == ShouldClose(current_length, paragraph, current_chunk)
             groups1 == IF close THEN Append(groups, current_chunk) ELSE groups
             chunk1 == IF close THEN <<>> ELSE current_chunk
             length1 == IF close THEN 0 ELSE current_length
         IN ChunkLoop(paragraphs, i + 1, groups1, Append(chunk1, paragraph),
                      length1 + TextLen(paragraph) + 2)

ChunkGroups(paragraphs) == ChunkLoop(paragraphs, 1, <<>>, <<>>, 0)

\* chunks.append('\n\n'.join(current_chunk)) for every closed chunk
Chunks(paragraphs) ==
    LET groups == ChunkGroups(paragraphs)
    IN [k \in 1..Len(groups) |-> Join(groups[k], Sep)]

(***************************************************************************)
(* Translation as the parsers see it.  A call of a parser hands each text  *)
(* to the backend; o is what the backend does with that text: "ok" (it     *)
(* returns a translation), "empty" (it returns ''), "none" (it returns     *)
(* None) or "raise" (it raises on every attempt).                          *)
(***************************************************************************)
Outcomes == {"ok", "empty", "none", "raise"}

\* a translation differs from its source text
Tr(part) == Cat(Rep("@", 1), part)

\* self.translator.translate(part) for an outcome that is not "raise"
Translate(o, part) ==
    CASE o = "ok" -> Tr(part)
      [] o = "empty" -> <<>>
      [] OTHER -> None

size_ceiling == 5000
window_size == 4000

\* windows as wide as the size ceiling, taken every 4000 characters
WindowsOverlapping(text) ==
    [w \in 1..((TextLen(text) + window_size - 1) \div window_size) |->
        Slice(text, (w - 1) * window_size, (w - 1) * window_size + size_ceiling)]

\* text[i:i+4000] for i in range(0, len(text), 4000)
Windows(text) ==
    [w \in 1..((TextLen(text) + window_size - 1) \div window_size) |->
        Slice(text, (w - 1) * window_size, (w - 1) * window_size + window_size)]

\* the arguments of self.translator.translate during one pass of the loop
BackendCalls(text) ==
    IF TextLen(text) > size_ceiling THEN Windows(text) ELSE <<text>>

\* one pass through the body of the try block: the value returned, or Raised
Attempt(text, o) ==
    IF o = "raise" THEN Raised
    ELSE IF TextLen(text) > size_ceiling
         THEN IF o = "none" THEN Raised   \* "".join of None parts: TypeError
              ELSE Join([w \in 1..Len(Windows(text)) |-> Translate(o, Windows(text)[w])], <<>>)
         ELSE Translate(o, text)

\* the retry loop of DeepTranslator.translate_text
RECURSIVE RetryLoop(_, _, _, _)
RetryLoop(text, o, retries, mr) ==
    IF ~(retries <= mr) THEN None      \* the loop body never ran: no return statement
    ELSE LET r == Attempt(text, o)
         IN IF r # Raised THEN r
            ELSE IF retries + 1 <= mr THEN RetryLoop(text, o, retries + 1, mr)
            ELSE text

\* DeepTranslator.translate_text (the backend is present)
DeepTranslateText(text, o, mr) ==
    IF text = <<>> \/ IsSpace(text) THEN text ELSE RetryLoop(text, o, 0, mr)

\* DeepTranslator.batch_translate as a function of its inputs: slot i holds
\* the result of translate_text for input i
DeepBatchTranslate(ts, os, mr) ==
    [i \in 1..Len(ts) |-> DeepTranslateText(ts[i], os[i], mr)]

\* configure_translator / get_translator: the parser's self.translator
TranslatorOf(cfg) ==
    IF ~cfg.enabled THEN "absent"
    ELSE IF cfg.service = "none" THEN "dummy"
    ELSE "deep"

ParserTranslateTextNoRestore(cfg, text, o) ==
    IF TranslatorOf(cfg) = "absent" \/ ~cfg.enabled \/ text = <<>> THEN text
    ELSE LET text_for_translation == Replace(text, Sep, Marker)
             translated_text ==
                 IF TranslatorOf(cfg) = "dummy" THEN text_for_translation
                 ELSE DeepTranslateText(text_for_translation, o, cfg.max_retries)
         IN IF translated_text = None THEN text ELSE translated_text

\* BaseSiteParser.translate_text
ParserTranslateText(cfg, text, o) ==
    IF TranslatorOf(cfg) = "absent" \/ ~cfg.enabled \/ text = <<>> THEN text
    ELSE LET text_for_translation == Replace(text, Sep, Marker)
             translated_text ==
                 IF TranslatorOf(cfg) = "dummy" THEN text_for_translation
                 ELSE DeepTranslateText(text_for_translation, o, cfg.max_retries)
         IN IF translated_text = None THEN text   \* None.replace: AttributeError, caught
            ELSE Replace(translated_text, Marker, Sep)

\* texts_for_translation of BaseSiteParser.batch_translate
ForTranslation(ts) == [i \in 1..Len(ts) |-> Replace(ts[i], Sep, Marker)]

\* what a translator's batch_translate did: returned a list, returned
\* None, or raised
ListAnswer(items) == [kind |-> "list", items |-> items]
NoneAnswer == [kind |-> "none", items |-> <<>>]
RaiseAnswer == [kind |-> "raise", items |-> <<>>]

\* the try block of BaseSiteParser.batch_translate once the translator has
\* answered: the restored list, or the original texts when the call or the
\* restoring raises
ParserBatchRestore(ts, answer) ==
    IF answer.kind # "list" THEN ts
    ELSE IF \E i \in 1..Len(answer.items) : answer.items[i] = None THEN ts
    ELSE [i \in 1..Len(answer.items) |-> Replace(answer.items[i], Marker, Sep)]

\* BaseSiteParser.batch_translate
ParserBatchTranslate(cfg, ts, os) ==
    IF TranslatorOf(cfg) = "absent" \/ ~cfg.enabled \/ ts = <<>> THEN ts
    ELSE LET texts_for_translation == ForTranslation(ts)
             translated_texts ==
                 IF TranslatorOf(cfg) = "dummy" THEN texts_for_translation
                 ELSE DeepBatchTranslate(texts_for_translation, os, cfg.max_retries)
         IN ParserBatchRestore(ts, ListAnswer(translated_texts))

(***************************************************************************)
(* parse_chapter_content                                                   *)
(***************************************************************************)
ParserClass(site) ==
    CASE site = "ncode" -> "NcodeParser"
      [] site = "novel18" -> "Novel18Parser"
      [] site = "mnlt" -> "MobileParser"
      [] site = "yomou" -> "NcodeParser"
      [] site = "hameln" -> "HamelnParser"

\* HamelnParser alone declares the parameter chapter_title
AcceptsTitleHint(cls) == cls = "HamelnParser"

\* the title before translation
ChapterTitle(cls, doc, chapter_title) ==
    IF AcceptsTitleHint(cls) /\ chapter_title # None /\ chapter_title # <<>>
    THEN chapter_title
    ELSE IF doc.title_elem # None THEN Strip(doc.title_elem) ELSE UnknownChapter

ContentParagraphs(doc) ==
    IF doc.content_elem.present THEN Paragraphs(doc.content_elem) ELSE <<>>

\* content or "No content available"
ContentOrDefault(content) == IF content = <<>> THEN NoContent ELSE content

\* chunks or ["No content available"]
ChunksOrDefault(chunks) == IF chunks = <<>> THEN <<NoContent>> ELSE chunks

\* the body of parse_chapter_content; os.title and os.chunks[k] are what the
\* backend does with the title and with chunk k
ParseChapterContent(cls, cfg, doc, url, chapter_title, os) ==
    LET title0 == ChapterTitle(cls, doc, chapter_title)
        paragraphs == ContentParagraphs(doc)
        chunks0 == Chunks(paragraphs)
        content0 == Join(paragraphs, Sep)
        title == IF cfg.enabled THEN ParserTranslateText(cfg, title0, os.title) ELSE title0
        translate == cfg.enabled /\ chunks0 # <<>> /\ cfg.translate_content
        chunks == IF translate
                  THEN [k \in 1..Len(chunks0) |->
                           ParserTranslateText(cfg, chunks0[k], os.chunks[k])]
                  ELSE chunks0
        content == IF translate THEN Join(chunks, Sep) ELSE content0
    IN [title |-> title, url |-> url,
        content |-> ContentOrDefault(content), chunks |-> ChunksOrDefault(chunks)]

NoValue == [title |-> None, url |-> None, content |-> None, chunks |-> <<>>]
NoRet == [op |-> "none", kind |-> "none", exc |-> "none", value |-> NoValue]
NoProvider == [title |-> "ok", chunks |-> <<>>]
Returned(op, v) == [op |-> op, kind |-> "return", exc |-> "none", value |-> v]
Raises(op, e) == [op |-> op, kind |-> "raise", exc |-> e, value |-> NoValue]

\* what the backend may do during one parse_chapter_content call
ContentProviders(cfg, doc) ==
    IF TranslatorOf(cfg) = "deep"
    THEN [title : Outcomes,
          chunks : [1..Len(Chunks(ContentParagraphs(doc))) -> Outcomes]]
    ELSE {[title |-> "ok",
           chunks |-> [k \in 1..Len(Chunks(ContentParagraphs(doc))) |-> "ok"]]}

\* parser.parse_chapter_content(soup, url) or (soup, url, chapter_title)
CallParseChapterContent(cls, cfg, doc, a, os) ==
    IF a.with_hint /\ ~AcceptsTitleHint(cls)
    THEN Raises("parse_chapter_content", "TypeError")
    ELSE Returned("parse_chapter_content",
                  ParseChapterContent(cls, cfg, doc, a.url, a.chapter_title, os))

\* a direct call of the parser's parse_chapter_content
DoParseChapterContent ==
    /\ ret.kind = "none"
    /\ soup.page = "chapter"
    /\ \E os \in ContentProviders(translation_config, soup) :
          /\ provider' = os
          /\ ret' = CallParseChapterContent(ParserClass(site_type), translation_config,
                                            soup, args, os)
    /\ UNCHANGED <<site_type, translation_config, soup, args>>
    /\ UNCHANGED downloadVars
    /\ UNCHANGED configVars
    /\ UNCHANGED batchVars
    /\ UNCHANGED downloadVars
    /\ UNCHANGED configVars

\* SyosetuScraper.get_chapter_content(chapter_url, chapter_title): the fetch
\* either fails (the exception is re-raised) or hands the document to the
\* parser, always with the title as third positional argument
GetChapterContent ==
    /\ ret.kind = "none"
    /\ soup.page = "chapter"
    /\ \/ /\ ret' = Raises("get_chapter_content", "RequestException")
          /\ provider' = provider
       \/ \E os \in ContentProviders(translation_config, soup) :
             /\ provider' = os
             /\ ret' = [CallParseChapterContent(ParserClass(site_type), translation_config,
                                                soup, [args EXCEPT !.with_hint = TRUE], os)
                          EXCEPT !.op = "get_chapter_content"]
    /\ UNCHANGED <<site_type, translation_config, soup, args>>
    /\ UNCHANGED downloadVars
    /\ UNCHANGED configVars
    /\ UNCHANGED batchVars
    /\ UNCHANGED downloadVars
    /\ UNCHANGED configVars

(***************************************************************************)
(* Inputs                                                                  *)
(***************************************************************************)
SiteTypes == {"ncode", "novel18", "mnlt", "yomou", "hameln"}

SeqsUpTo(S, n) == UNION {[1..k -> S] : k \in 0..n}

MaxParas == 3
MaxContentParas == 2

default_max_retries == 3
default_concurrent_requests == 3

Url == Str(<<"u">>)
HintTitle == Str(<<"X">>)
PageTitle == Str(<<"p">>)

\* the translation section of the configuration
Config(enabled, service, translate_content) ==
    [enabled |-> enabled, service |-> service, translate_title |-> TRUE,
     translate_content |-> translate_content, max_retries |-> default_max_retries,
     concurrent_requests |-> default_concurrent_requests]

DisabledConfig == Config(FALSE, "google", TRUE)

\* translation enabled with --translate-title no
TitleOffConfig(service, translate_content) ==
    [Config(TRUE, service, translate_content) EXCEPT !.translate_title = FALSE]

\* a chapter page: the title element and the content container the
\* parser's selectors find (None / present = FALSE when they find nothing)
ChapterPage(title_elem, present, p, text) ==
    [page |-> "chapter", title_elem |-> title_elem,
     content_elem |-> [present |-> present, p |-> p, text |-> text]]

\* paragraphs around the chunk limit: short, two that fit one chunk together,
\* two that do not, and one longer than the limit
LongParas ==
    {Rep("a", 1), Rep("b", chunk_limit \div 2 - 2), Rep("a", chunk_limit \div 2 - 1),
     Rep("b", chunk_limit - 5), Rep("a", chunk_limit), Rep("b", chunk_limit + 1)}

ChunkPages ==
    {ChapterPage(PageTitle, TRUE, P, Join(P, Rep(NL, 1))) : P \in SeqsUpTo(LongParas, MaxParas)}

RawParas == {Str(<<" ", "a", NL>>), Rep("b", chunk_limit \div 2 + 100)}

ContentPages ==
    {ChapterPage(t, TRUE, P, Join(P, Rep(NL, 1))) :
        t \in {None, PageTitle}, P \in SeqsUpTo(RawParas, MaxContentParas)}
    \cup {ChapterPage(PageTitle, TRUE, <<>>, Str(<<"a", NL, NL, " ", "b", " ", NL, "c">>)),
          ChapterPage(PageTitle, FALSE, <<>>, <<>>)}

ContentArgs ==
    {[url |-> Url, with_hint |-> FALSE, chapter_title |-> None],
     [url |-> Url, with_hint |-> TRUE, chapter_title |-> HintTitle],
     [url |-> Url, with_hint |-> TRUE, chapter_title |-> <<>>]}

ContentConfigs ==
    {DisabledConfig} \cup
    {Config(TRUE, sv, tc) : sv \in {"google", "none"}, tc \in BOOLEAN}
    \cup {TitleOffConfig("google", tc) : tc \in BOOLEAN}

\* the literal DEFAULT_CONFIG of config.py; delays are in tenths of a second
FactoryDefaults ==
    [general |-> [delay |-> 10, user_agent |-> "Mozilla/5.0"],
     translation |-> [enabled |-> FALSE, service |-> "google", api_key |-> "",
                      target_language |-> "en", translate_title |-> TRUE,
                      translate_content |-> TRUE, concurrent_requests |-> 3,
                      request_delay |-> 1, max_retries |-> 3]]

\* no configuration file yet
NoFile == [kind |-> "absent", data |-> FactoryDefaults]

\* a process that has just imported config.py, in a home without file
ConfigIdle ==
    /\ DEFAULT_CONFIG = FactoryDefaults
    /\ config_file = NoFile

BatchIdle ==
    /\ chapters_to_download = <<>>
    /\ downloads = <<>>
    /\ ConfigIdle
    /\ texts = <<>>
    /\ max_retries = default_max_retries
    /\ concurrent_requests = default_concurrent_requests
    /\ backend = "none"
    /\ task = <<>>
    /\ results = <<>>
    /\ bpc = "idle"

\* the chunker on its own: translation disabled, paragraphs around the limit
InitChunk ==
    /\ site_type \in SiteTypes
    /\ translation_config = DisabledConfig
    /\ soup \in ChunkPages
    /\ args = [url |-> Url, with_hint |-> FALSE, chapter_title |-> None]
    /\ provider = NoProvider
    /\ ret = NoRet
    /\ BatchIdle

InitContent ==
    /\ site_type \in SiteTypes
    /\ translation_config \in ContentConfigs
    /\ soup \in ContentPages
    /\ args \in ContentArgs
    /\ provider = NoProvider
    /\ ret = NoRet
    /\ BatchIdle

NextContent == DoParseChapterContent \/ GetChapterContent

SpecChunk == InitChunk /\ [][NextContent]_vars
SpecContent == InitContent /\ [][NextContent]_vars

(***************************************************************************)
(* Claims about parse_chapter_content                                      *)
(***************************************************************************)
RECURSIVE Flatten(_)
Flatten(groups) == IF groups = <<>> THEN <<>> ELSE groups[1] \o Flatten(Tail(groups))

\* C1: for every sequence P of non-empty paragraphs, the chunks that
\* parse_chapter_content builds, rejoined with '\n\n', equal P joined with
\* '\n\n'; the chunks are consecutive groups of P in order, so that no
\* paragraph is split, dropped or duplicated.
ChunkRoundTrip ==
    (ret.kind = "return" /\ ContentParagraphs(soup) # <<>>) =>
        LET P == ContentParagraphs(soup)
            groups == ChunkGroups(P)
        IN /\ Join(ret.value.chunks, Sep) = Join(P, Sep)
           /\ Len(ret.value.chunks) = Len(groups)
           /\ \A k \in 1..Len(groups) :
                 groups[k] # <<>> /\ ret.value.chunks[k] = Join(groups[k], Sep)
           /\ Flatten(groups) = P

\* C1 witness: three or more paragraphs were packed into two or more
\* chunks, one of which holds several paragraphs.
ChunkRoundTripWitness ==
    /\ ret.kind = "return"
    /\ Len(ContentParagraphs(soup)) >= 3
    /\ Len(ret.value.chunks) >= 2
    /\ Len(ret.value.chunks) < Len(ContentParagraphs(soup))

\* C3: every chunk has length <= chunk_limit unless it consists of exactly
\* one paragraph that is itself longer than the limit, and a paragraph
\* longer than the limit shares its chunk with no other paragraph.
ChunkSizeBound ==
    (ret.kind = "return" /\ ContentParagraphs(soup) # <<>>) =>
        LET groups == ChunkGroups(ContentParagraphs(soup))
        IN /\ Len(ret.value.chunks) = Len(groups)
           /\ \A k \in 1..Len(groups) :
                 /\ \/ TextLen(ret.value.chunks[k]) <= chunk_limit
                    \/ Len(groups[k]) = 1 /\ TextLen(groups[k][1]) > chunk_limit
                 /\ \A j \in 1..Len(groups[k]) :
                       TextLen(groups[k][j]) > chunk_limit => Len(groups[k]) = 1

\* C3 witness: one chunk is an oversize single paragraph and another holds
\* two paragraphs that fill it to the last character the test allows.
ChunkSizeBoundWitness ==
    /\ ret.kind = "return"
    /\ \E k \in 1..Len(ret.value.chunks) : TextLen(ret.value.chunks[k]) > chunk_limit
    /\ \E k \in 1..Len(ret.value.chunks) :
          /\ TextLen(ret.value.chunks[k]) = chunk_limit - 2
          /\ Len(ChunkGroups(ContentParagraphs(soup))[k]) = 2

\* C2: every ChapterContent returned by parse_chapter_content satisfies
\* join(chunks, '\n\n') == content.
ChunksRejoinToContent ==
    ret.kind = "return" => Join(ret.value.chunks, Sep) = ret.value.content

\* C9: HamelnParser.parse_chapter_content called with a non-empty title
\* hint X returns a ChapterContent whose title is X, whether or not
\* translation is enabled.
TitleHintPrecedence ==
    (/\ ret.kind = "return"
     /\ ParserClass(site_type) = "HamelnParser"
     /\ (args.with_hint \/ ret.op = "get_chapter_content")
     /\ args.chapter_title = HintTitle) => ret.value.title = HintTitle

\* C10: for every site type, get_chapter_content returns a ChapterContent
\* whenever the fetch succeeds.
GetChapterContentReturns ==
    (ret.op = "get_chapter_content" /\ ret.exc # "RequestException") =>
        ret.kind = "return"

(***************************************************************************)
(* parse_chapter_list                                                      *)
(***************************************************************************)
\* a key the dict does not hold
Absent == << <<"<absent>", 0>> >>

Digits == <<"0", "1", "2", "3", "4", "5", "6", "7", "8", "9">>
DigitSet == {Digits[i] : i \in 1..Len(Digits)}

\* str(n)
RECURSIVE Decimal(_)
Decimal(n) ==
    IF n < 10 THEN Rep(Digits[n + 1], 1)
    ELSE Cat(Decimal(n \div 10), Rep(Digits[(n % 10) + 1], 1))

\* href.split('/')[-1]
LastSegment(href) ==
    LET slashes == {i \in 1..Len(href) : href[i][1] = "/"}
    IN IF slashes = {} THEN href ELSE SubSeq(href, MaxOf(slashes) + 1, Len(href))

\* href.startswith('/')
StartsWithSlash(href) == href # <<>> /\ href[1][1] = "/"

DotHtml == <<".", "h", "t", "m", "l">>

\* re.search(r'(\d+)\.html$', href): group(1), or None when nothing matches
HtmlNumber(href) ==
    LET cs == Expand(href, Chars(href))
        n == Len(cs)
        tail == n - Len(DotHtml)
    IN IF /\ tail >= 1
          /\ \A k \in 1..Len(DotHtml) : cs[tail + k][1] = DotHtml[k]
          /\ cs[tail][1] \in DigitSet
       THEN LET first == MinOf({i \in 1..tail : \A k \in i..tail : cs[k][1] \in DigitSet})
            IN Norm(SubSeq(cs, first, tail))
       ELSE None

\* one dict of the chapter list
Chapter(index, title, chapter_num, url, arc, publish_date) ==
    [index |-> index, title |-> title, chapter_num |-> chapter_num, url |-> url,
     arc |-> arc, publish_date |-> publish_date]

\* NcodeParser / Novel18Parser: `if link:`; MobileParser: the element itself
\* stands in for a missing <a>, and an href is required
HasLink(cls, elem) ==
    IF cls = "MobileParser" THEN elem.href # None /\ elem.href # <<>> ELSE elem.link

\* the loop over '.novel_sublist2' ('.chapter_title' for MobileParser)
RECURSIVE ElemLoop(_, _, _, _)
ElemLoop(cls, chapter_elems, index, base_url) ==
    IF index > Len(chapter_elems) THEN <<>>
    ELSE LET elem == chapter_elems[index]
             href == elem.href
             has_href == href # None /\ href # <<>>
             chapter_num == IF has_href THEN LastSegment(href) ELSE Decimal(index)
             url == IF has_href /\ StartsWithSlash(href) THEN Cat(base_url, href) ELSE None
         IN (IF HasLink(cls, elem)
             THEN <<Chapter(index, Strip(elem.title), chapter_num, url, Absent, Absent)>>
             ELSE <<>>)
            \o ElemLoop(cls, chapter_elems, index + 1, base_url)

\* chapters[i]['title'] = translated_title for i < len(chapters)
WithTitles(chapters, translated_titles) ==
    [i \in 1..Len(chapters) |->
        IF i <= Len(translated_titles)
        THEN [chapters[i] EXCEPT !.title = translated_titles[i]]
        ELSE chapters[i]]

TitlesOf(chapters) == [i \in 1..Len(chapters) |-> chapters[i].title]

\* parse_chapter_list of NcodeParser, Novel18Parser and MobileParser
ElemChapterList(cls, cfg, doc, base_url, os) ==
    LET chapters == ElemLoop(cls, doc.chapter_elems, 1, base_url)
        chapter_titles == TitlesOf(chapters)
    IN IF cfg.enabled /\ chapter_titles # <<>>
       THEN WithTitles(chapters, ParserBatchTranslate(cfg, chapter_titles, os.titles))
       ELSE chapters

\* table.select_one('tr td strong'): the first bold cell of the table
ArcRows(table) == SelectSeq(table, LAMBDA row : row.kind = "arc")

\* table.select('tr.bgcolor3, tr.bgcolor2')
ChapterRows(table) == SelectSeq(table, LAMBDA row : row.kind = "chapter")

\* the loop over the chapter rows of one table
RECURSIVE RowLoop(_, _, _)
RowLoop(chapter_rows, index, current_arc) ==
    IF index > Len(chapter_rows) THEN <<>>
    ELSE LET row == chapter_rows[index]
             match == IF row.href # None /\ row.href # <<>> THEN HtmlNumber(row.href) ELSE None
             chapter_num == IF match # None THEN match ELSE Decimal(index)
         IN (IF row.link
             THEN <<Chapter(index, Strip(row.title), chapter_num, None, current_arc,
                            row.datetime)>>
             ELSE <<>>)
            \o RowLoop(chapter_rows, index + 1, current_arc)

\* the loop over the tables: st holds chapters, current_arc and arc_titles
RECURSIVE TableLoop(_, _, _)
TableLoop(story_tables, t, st) ==
    IF t > Len(story_tables) THEN st
    ELSE LET table == story_tables[t]
             arc_row == ArcRows(table)
         IN IF arc_row # <<>>
            THEN TableLoop(story_tables, t + 1,
                     [st EXCEPT !.current_arc = Strip(arc_row[1].strong),
                                !.arc_titles = Append(@, Strip(arc_row[1].strong))])
            ELSE TableLoop(story_tables, t + 1,
                     [st EXCEPT !.chapters =
                          @ \o RowLoop(ChapterRows(table), 1, st.current_arc)])

HamelnScan(doc) ==
    TableLoop(doc.tables, 1, [chapters |-> <<>>, current_arc |-> <<>>, arc_titles |-> <<>>])

\* dict(zip(arc_titles, translated_arcs)): a later pair with the same key wins
\* (zip stops at the end of the shorter list)
ArcMap(arc_titles, translated_arcs) ==
    LET n == MinOf({Len(arc_titles), Len(translated_arcs)})
    IN [a \in {arc_titles[i] : i \in 1..n} |->
           translated_arcs[MaxOf({i \in 1..n : arc_titles[i] = a})]]

WithArcs(chapters, arc_map) ==
    [i \in 1..Len(chapters) |->
        IF chapters[i].arc \in DOMAIN arc_map
        THEN [chapters[i] EXCEPT !.arc = arc_map[chapters[i].arc]]
        ELSE chapters[i]]

\* HamelnParser.parse_chapter_list
HamelnChapterList(cfg, doc, os) ==
    LET scan == HamelnScan(doc)
        arc_titles == scan.arc_titles
        chapter_titles == TitlesOf(scan.chapters)
        chapters1 ==
            IF cfg.enabled /\ arc_titles # <<>>
            THEN WithArcs(scan.chapters,
                          ArcMap(arc_titles, ParserBatchTranslate(cfg, arc_titles, os.arcs)))
            ELSE scan.chapters
    IN IF cfg.enabled /\ chapter_titles # <<>>
       THEN WithTitles(chapters1, ParserBatchTranslate(cfg, chapter_titles, os.titles))
       ELSE chapters1

ParseChapterList(cls, cfg, doc, base_url, os) ==
    IF cls = "HamelnParser" THEN HamelnChapterList(cfg, doc, os)
    ELSE ElemChapterList(cls, cfg, doc, base_url, os)

\* SyosetuScraper.SITES
SITES(site) ==
    CASE site = "ncode" ->
           Str(<<"h", "t", "t", "p", "s", ":", "/", "/", "n", "c", "o", "d", "e", ".",
                 "s", "y", "o", "s", "e", "t", "u", ".", "c", "o", "m">>)
      [] site = "novel18" ->
           Str(<<"h", "t", "t", "p", "s", ":", "/", "/", "n", "o", "v", "e", "l", "1", "8", ".",
                 "s", "y", "o", "s", "e", "t", "u", ".", "c", "o", "m">>)
      [] site = "mnlt" ->
           Str(<<"h", "t", "t", "p", "s", ":", "/", "/", "m", "n", "l", "t", ".",
                 "s", "y", "o", "s", "e", "t", "u", ".", "c", "o", "m">>)
      [] site = "yomou" ->
           Str(<<"h", "t", "t", "p", "s", ":", "/", "/", "y", "o", "m", "o", "u", ".",
                 "s", "y", "o", "s", "e", "t", "u", ".", "c", "o", "m">>)
      [] site = "hameln" ->
           Str(<<"h", "t", "t", "p", "s", ":", "/", "/",
                 "s", "y", "o", "s", "e", "t", "u", ".", "o", "r", "g">>)

\* what the backend may do during one parse_chapter_list call
ListProviders(cls, cfg, doc, base_url) ==
    LET narcs == IF cls = "HamelnParser" THEN Len(HamelnScan(doc).arc_titles) ELSE 0
        ntitles == IF cls = "HamelnParser" THEN Len(HamelnScan(doc).chapters)
                   ELSE Len(ElemLoop(cls, doc.chapter_elems, 1, base_url))
    IN IF TranslatorOf(cfg) = "deep"
       THEN [arcs : [1..narcs -> Outcomes], titles : [1..ntitles -> Outcomes]]
       ELSE {[arcs |-> [k \in 1..narcs |-> "ok"], titles |-> [k \in 1..ntitles |-> "ok"]]}

\* a direct call of the parser's parse_chapter_list(soup, novel_id, base_url)
DoParseChapterList ==
    /\ ret.kind = "none"
    /\ soup.page = "list"
    /\ \E os \in ListProviders(ParserClass(site_type), translation_config, soup, args.base_url) :
          /\ provider' = os
          /\ ret' = Returned("parse_chapter_list",
                             ParseChapterList(ParserClass(site_type), translation_config,
                                              soup, args.base_url, os))
    /\ UNCHANGED <<site_type, translation_config, soup, args>>
    /\ UNCHANGED downloadVars
    /\ UNCHANGED configVars
    /\ UNCHANGED batchVars
    /\ UNCHANGED downloadVars
    /\ UNCHANGED configVars

(***************************************************************************)
(* Chapter-list documents                                                  *)
(***************************************************************************)
MaxRows == 3

NovelId == Str(<<"n", "1">>)

\* the link text of the row at document position pos, with the white space
\* the markup leaves around it
RowTitle(pos) == Cat(Rep("t", 1), Decimal(pos))
RawRowTitle(pos) == Cat(Rep(" ", 1), Cat(RowTitle(pos), Rep(NL, 1)))

Row(kind, link, pos, href, datetime, strong) ==
    [kind |-> kind, link |-> link, pos |-> pos, title |-> RawRowTitle(pos), href |-> href,
     datetime |-> datetime, strong |-> strong]

\* list entries of the Syosetu sites: "c" links with an absolute path, "r"
\* with a relative one, "h" holds a link without href, "n" holds no link
ElemKinds == {"c", "r", "h", "n"}

ElemOf(k, pos) ==
    CASE k = "c" -> Row("chapter", TRUE, pos,
                        Cat(Str(<<"/", "n", "1", "/">>), Cat(Decimal(pos), Rep("/", 1))),
                        None, None)
      [] k = "r" -> Row("chapter", TRUE, pos, Decimal(pos), None, None)
      [] k = "h" -> Row("chapter", TRUE, pos, None, None, None)
      [] k = "n" -> Row("chapter", FALSE, pos, None, None, None)

\* rows of a Hameln index: arc headers "A" and "B" (a bold cell), chapter
\* rows "c" (link ./<pos>.html and a <time>), "x" (link without a chapter
\* file name, no <time>) and "n" (no link)
HamelnKinds == {"A", "B", "c", "x", "n"}

ArcTitle(k) == Rep(k, 1)

HamelnRowOf(k, pos) ==
    CASE k \in {"A", "B"} ->
           Row("arc", FALSE, pos, None, None, Cat(Rep(" ", 1), ArcTitle(k)))
      [] k = "c" -> Row("chapter", TRUE, pos,
                        Cat(Str(<<".", "/">>), Cat(Decimal(pos), Str(DotHtml))),
                        Str(<<"2", "0", "2", "0">>), None)
      [] k = "x" -> Row("chapter", TRUE, pos, Str(<<".", "/">>), None, None)
      [] k = "n" -> Row("chapter", FALSE, pos, None, None, None)

\* the rows cut into tables after the positions in cuts
RECURSIVE Tables(_, _)
Tables(rows, cuts) ==
    IF rows = <<>> THEN <<>>
    ELSE LET n == Len(rows)
             e == MinOf((cuts \cap 1..n) \cup {n})
         IN <<SubSeq(rows, 1, e)>>
            \o Tables(SubSeq(rows, e + 1, n), {c - e : c \in {d \in cuts : d > e}})

ListPage(chapter_elems, tables) ==
    [page |-> "list", chapter_elems |-> chapter_elems, tables |-> tables]

ElemPages ==
    {ListPage([i \in 1..Len(ks) |-> ElemOf(ks[i], i)], <<>>) : ks \in SeqsUpTo(ElemKinds, MaxRows)}

HamelnPage(ks, cuts) == ListPage(<<>>, Tables([i \in 1..Len(ks) |-> HamelnRowOf(ks[i], i)], cuts))

\* an arc header, three chapters, a second arc header, two chapters
FixtureKinds == <<"A", "c", "c", "c", "B", "c", "c">>
FixtureOneTable == HamelnPage(FixtureKinds, {})
FixtureSplit == HamelnPage(FixtureKinds, {1, 4, 5})

HamelnPages ==
    {HamelnPage(ks, cuts) : ks \in SeqsUpTo(HamelnKinds, MaxRows), cuts \in SUBSET (1..(MaxRows - 1))}
    \cup {FixtureOneTable, FixtureSplit}

ListConfigs ==
    {DisabledConfig, Config(TRUE, "google", TRUE), Config(TRUE, "none", TRUE),
     TitleOffConfig("google", TRUE)}

InitList ==
    /\ site_type \in SiteTypes
    /\ translation_config \in ListConfigs
    /\ soup \in IF site_type = "hameln" THEN HamelnPages ELSE ElemPages
    /\ args = [novel_id |-> NovelId, base_url |-> SITES(site_type)]
    /\ provider = NoProvider
    /\ ret = NoRet
    /\ BatchIdle

NextList == DoParseChapterList

SpecList == InitList /\ [][NextList]_vars

(***************************************************************************)
(* Claims about parse_chapter_list                                         *)
(***************************************************************************)
ListReturned == ret.op = "parse_chapter_list" /\ ret.kind = "return"

\* C4: the index fields of the chapters parse_chapter_list returns are
\* exactly 1..N, each equal to the chapter's 1-based position in the list.
IndexDensity ==
    ListReturned => \A i \in 1..Len(ret.value) : ret.value[i].index = i

\* all rows of the document, in document order
RECURSIVE DocRows(_)
DocRows(tables) == IF tables = <<>> THEN <<>> ELSE tables[1] \o DocRows(Tail(tables))

\* the title of the most recent arc header before position pos, "" if none
PrecedingArc(rows, pos) ==
    LET headers == {i \in 1..(pos - 1) : rows[i].kind = "arc"}
    IN IF headers = {} THEN <<>> ELSE Strip(rows[MaxOf(headers)].strong)

KindsAre(rows, ks) ==
    /\ Len(rows) = Len(ks)
    /\ \A i \in 1..Len(ks) :
          IF ks[i] = "c" THEN rows[i].kind = "chapter" /\ rows[i].link
          ELSE rows[i].kind = "arc" /\ Strip(rows[i].strong) = ArcTitle(ks[i])

\* C7: in the list the Hameln parser returns, every chapter's arc is the
\* title of the most recent arc header before its row in document order ("" when
\* there is none); a document of an arc header, three chapter rows, a
\* second header and two chapter rows yields five chapters, the first three
\* carrying the first arc title and the last two the second.
ArcCarryForward ==
    (ListReturned /\ site_type = "hameln" /\ ~translation_config.enabled) =>
        LET rows == DocRows(soup.tables)
        IN /\ \A i \in 1..Len(ret.value) :
                 \E pos \in 1..Len(rows) :
                    /\ ret.value[i].title = RowTitle(rows[pos].pos)
                    /\ ret.value[i].arc = PrecedingArc(rows, pos)
           /\ KindsAre(rows, FixtureKinds) =>
                 [i \in 1..Len(ret.value) |-> ret.value[i].arc]
                    = <<ArcTitle("A"), ArcTitle("A"), ArcTitle("A"), ArcTitle("B"), ArcTitle("B")>>

(***************************************************************************)
(* parse_novel_info                                                        *)
(***************************************************************************)
UnknownTitle == Str(<<"U", "n", "k", "n", "o", "w", "n", " ", "T", "i", "t", "l", "e">>)
UnknownAuthor == Str(<<"U", "n", "k", "n", "o", "w", "n", " ", "A", "u", "t", "h", "o", "r">>)
NoDescription ==
    Str(<<"N", "o", " ", "d", "e", "s", "c", "r", "i", "p", "t", "i", "o", "n", " ",
          "a", "v", "a", "i", "l", "a", "b", "l", "e">>)

\* the three characters of the author label the Syosetu sites print
AuthorLabel == Str(<<"saku", "sha", ":">>)

ElemTextNoDefault(elem, default) == IF elem = None THEN <<>> ELSE Strip(elem)

\* elem.text.strip() if elem else default
ElemText(elem, default) == IF elem = None THEN default ELSE Strip(elem)

\* author_elem.text.strip().replace(label, '') if author_elem else default;
\* HamelnParser does not strip a label
AuthorText(cls, elem, default) ==
    IF elem = None THEN default
    ELSE IF cls = "HamelnParser" THEN Strip(elem)
    ELSE Replace(Strip(elem), AuthorLabel, <<>>)

\* an empty dict
NoMetadata == [genre |-> Absent, age_restricted |-> Absent, keywords |-> Absent, tags |-> Absent]

StripAll(elems) == [i \in 1..Len(elems) |-> Strip(elems[i])]

\* the metadata dict before translation
Metadata(cls, doc) ==
    [genre |-> IF cls = "NcodeParser" /\ doc.genre_elem # None
               THEN Strip(doc.genre_elem) ELSE Absent,
     age_restricted |-> IF cls = "Novel18Parser" /\ doc.age_notice THEN TRUE ELSE Absent,
     keywords |-> IF cls \in {"NcodeParser", "Novel18Parser"} /\ doc.keyword_elems # <<>>
                  THEN StripAll(doc.keyword_elems) ELSE Absent,
     tags |-> IF cls = "HamelnParser" /\ doc.tag_elems # <<>>
              THEN StripAll(doc.tag_elems) ELSE Absent]

\* metadata.get(key, [])
GetList(v) == IF v = Absent THEN <<>> ELSE v

\* the list handed to batch_translate
ToTranslate(cls, doc) ==
    LET metadata == Metadata(cls, doc)
    IN <<ElemText(doc.title_elem, UnknownTitle),
         AuthorText(cls, doc.author_elem, UnknownAuthor),
         ElemText(doc.desc_elem, NoDescription)>>
       \o (IF metadata.genre # Absent THEN <<metadata.genre>> ELSE <<>>)
       \o GetList(metadata.keywords) \o GetList(metadata.tags)

\* translated[a:b]
ListSlice(xs, a, b) == SubSeq(xs, a + 1, MinOf({b, Len(xs)}))

\* translated[0], [1], [2] or [idx] lies past the end of the list that
\* batch_translate handed back: IndexError
NovelInfoIndexError(cls, doc, translated) ==
    Len(translated) < 3 \/ (Metadata(cls, doc).genre # Absent /\ Len(translated) < 4)

\* the assignments after batch_translate and the return statement, for the
\* list translated that batch_translate handed back
NovelInfoFrom(cls, doc, url, translated) ==
    LET metadata == Metadata(cls, doc)
        idx == IF metadata.genre # Absent THEN 4 ELSE 3
        keywords == GetList(metadata.keywords)
        tags == GetList(metadata.tags)
    IN [title |-> translated[1],
        author |-> translated[2],
        description |-> translated[3],
        url |-> url,
        metadata |->
            [genre |-> IF metadata.genre # Absent THEN translated[4] ELSE Absent,
             age_restricted |-> metadata.age_restricted,
             keywords |-> IF keywords # <<>>
                          THEN ListSlice(translated, idx, idx + Len(keywords)) ELSE Absent,
             tags |-> IF tags # <<>>
                      THEN ListSlice(translated, 3, 3 + Len(tags)) ELSE Absent]]

ParseNovelInfo(cls, cfg, doc, url, os) ==
    NovelInfoFrom(cls, doc, url,
                  IF cfg.enabled THEN ParserBatchTranslate(cfg, ToTranslate(cls, doc), os)
                  ELSE ToTranslate(cls, doc))

\* what the backend may do during one parse_novel_info call
InfoProviders(cls, cfg, doc) ==
    IF TranslatorOf(cfg) = "deep"
    THEN [1..Len(ToTranslate(cls, doc)) -> Outcomes]
    ELSE {[k \in 1..Len(ToTranslate(cls, doc)) |-> "ok"]}

\* a direct call of the parser's parse_novel_info(soup, url)
DoParseNovelInfo ==
    /\ ret.kind = "none"
    /\ soup.page = "info"
    /\ \E os \in InfoProviders(ParserClass(site_type), translation_config, soup) :
          /\ provider' = os
          /\ ret' = Returned("parse_novel_info",
                             ParseNovelInfo(ParserClass(site_type), translation_config,
                                            soup, args.url, os))
    /\ UNCHANGED <<site_type, translation_config, soup, args>>
    /\ UNCHANGED downloadVars
    /\ UNCHANGED configVars
    /\ UNCHANGED batchVars
    /\ UNCHANGED downloadVars
    /\ UNCHANGED configVars

MaxKeywords == 1

InfoPage(title_elem, author_elem, desc_elem, genre_elem, age_notice, keyword_elems, tag_elems) ==
    [page |-> "info", title_elem |-> title_elem, author_elem |-> author_elem,
     desc_elem |-> desc_elem, genre_elem |-> genre_elem, age_notice |-> age_notice,
     keyword_elems |-> keyword_elems, tag_elems |-> tag_elems]

\* the document in which no selector matches
EmptyInfoPage == InfoPage(None, None, None, None, FALSE, <<>>, <<>>)

RawTitle == Str(<<" ", "T">>)
RawAuthor == Cat(AuthorLabel, Str(<<"w", " ">>))
RawDescription == Cat(Rep("d", 1), Cat(Sep, Rep("e", 1)))
RawKeyword == Str(<<" ", "k">>)

\* the elements each site's markup can hold
InfoPagesOf(site) ==
    {InfoPage(e[1], e[2], e[3], g, n, ks, ts) :
        e \in {<<None, None, None>>, <<RawTitle, None, None>>, <<None, RawAuthor, None>>,
               <<RawTitle, RawAuthor, RawDescription>>},
        g \in IF site \in {"ncode", "yomou"} THEN {None, Str(<<"g", " ">>)} ELSE {None},
        n \in IF site = "novel18" THEN BOOLEAN ELSE {FALSE},
        ks \in IF site \in {"ncode", "yomou", "novel18"}
               THEN SeqsUpTo({RawKeyword}, MaxKeywords) ELSE {<<>>},
        ts \in IF site = "hameln" THEN SeqsUpTo({RawKeyword}, MaxKeywords) ELSE {<<>>}}

InitInfo ==
    /\ site_type \in SiteTypes
    /\ translation_config \in ListConfigs
    /\ soup \in InfoPagesOf(site_type)
    /\ args = [url |-> Url]
    /\ provider = NoProvider
    /\ ret = NoRet
    /\ BatchIdle

NextInfo == DoParseNovelInfo

SpecInfo == InitInfo /\ [][NextInfo]_vars

(***************************************************************************)
(* Claims about parse_novel_info                                           *)
(***************************************************************************)
InfoReturnedForEmptyPage == ret.op = "parse_novel_info" /\ soup = EmptyInfoPage

\* C8 as stated: for a document in which no selector matches,
\* parse_novel_info returns the three literal defaults, the url argument
\* and empty metadata, and does not raise.
InfoLiteralDefaults ==
    InfoReturnedForEmptyPage =>
        /\ ret.kind = "return"
        /\ ret.value.title = UnknownTitle
        /\ ret.value.author = UnknownAuthor
        /\ ret.value.description = NoDescription
        /\ ret.value.url = args.url
        /\ ret.value.metadata = NoMetadata

\* what batch_translate hands back for a default under the outcome o
TranslatedDefault(default, o) ==
    CASE o = "ok" -> Tr(default)
      [] o = "empty" -> <<>>
      [] o = "raise" -> default

\* C8 (amended): for a document in which no selector matches,
\* parse_novel_info does not raise and returns the url argument and empty
\* metadata; title, author and description are the literal defaults when
\* translation is disabled or passes texts through, and otherwise what the
\* backend makes of each default: its translation, or the default itself
\* when its translation keeps raising; when the backend yields no value
\* for one of the three, all three stay the literal defaults.
InfoSoftDefaults ==
    InfoReturnedForEmptyPage =>
        /\ ret.kind = "return"
        /\ ret.value.url = args.url
        /\ ret.value.metadata = NoMetadata
        /\ IF translation_config.enabled /\ translation_config.service # "none"
              /\ \A i \in 1..3 : provider[i] # "none"
           THEN /\ ret.value.title = TranslatedDefault(UnknownTitle, provider[1])
                /\ ret.value.author = TranslatedDefault(UnknownAuthor, provider[2])
                /\ ret.value.description = TranslatedDefault(NoDescription, provider[3])
           ELSE /\ ret.value.title = UnknownTitle
                /\ ret.value.author = UnknownAuthor
                /\ ret.value.description = NoDescription

\* the empty page with a backend that translates the title, keeps raising
\* for the author and answers '' for the description
InfoSoftDefaultsWitness ==
    /\ InfoReturnedForEmptyPage
    /\ translation_config.enabled
    /\ ret.value.title = Tr(UnknownTitle)
    /\ ret.value.author = UnknownAuthor
    /\ ret.value.description = <<>>

(***************************************************************************)
(* DeepTranslator.translate_text and batch_translate, step by step         *)
(***************************************************************************)
\* the translator object in use: "dummy" is DummyTranslator, "absent" a
\* DeepTranslator whose backend could not be built, "flaky" one whose
\* backend may answer or raise on every call, "raises" one whose backend
\* raises on every call, "strings" one whose backend returns a string or
\* raises
Backends == {"dummy", "absent", "flaky", "raises"}

BackendOutcomes(b) ==
    IF b = "raises" THEN {"raise"}
    ELSE IF b = "strings" THEN {"ok", "empty", "raise"}
    ELSE Outcomes

\* not text or text.isspace()
IsBlank(text) == text = <<>> \/ IsSpace(text)

\* time.sleep(5) before the next attempt
retry_delay == 5

\* one translate_text call: its text, where it stands, the loop's retries,
\* the backend calls and sleeps made so far, the seconds slept between
\* attempts, the value returned, the position at which as_completed
\* handed it out, the pool thread running it, the number of times its
\* slot of results was assigned, and the number of times the call has
\* assigned self.translator.target (the first statement of every attempt)
NewTask(text) ==
    [text |-> text, st |-> "queued", retries |-> 0, attempts |-> 0, sleeps |-> 0,
     waited |-> 0, result |-> None, order |-> 0, worker |-> 0, writes |-> 0,
     target_writes |-> 0]

Running == {i \in 1..Len(task) : task[i].st = "running"}
Collected == {i \in 1..Len(task) : task[i].st = "collected"}

MayRetryStrict(retries, mr) == retries < mr
MayRetryOnceMore(retries, mr) == retries <= mr + 1
MayRetryForever(retries, mr) == retries >= 0

\* `if retries <= self.max_retries` in the except branch
MayRetry(retries, mr) == retries <= mr

\* `while retries <= self.max_retries`
LoopCondition(retries, mr) == retries <= mr

ResultSlotByCompletion(index, order) == order
ResultSlotOffByOne(index, order) == IF index = 1 THEN Len(texts) ELSE index - 1

\* results[index] = future.result(), index = future_to_index[future]
ResultSlot(index, order) == index

\* translate_text(text) called on its own
CallTranslateText ==
    /\ bpc = "idle"
    /\ texts # <<>>
    /\ IF backend \in {"dummy", "absent"} \/ IsBlank(texts[1])
       THEN /\ ret' = Returned("translate_text", texts[1])
            /\ bpc' = "done"
            /\ task' = task
       ELSE /\ task' = <<[NewTask(texts[1]) EXCEPT !.st = "running"]>>
            /\ bpc' = "single"
            /\ ret' = ret
    /\ UNCHANGED <<texts, max_retries, concurrent_requests, backend, results>>
    /\ UNCHANGED <<site_type, translation_config, soup, args, provider>>
    /\ UNCHANGED downloadVars
    /\ UNCHANGED configVars

\* batch_translate(texts) up to the first translate_text call
CallBatchTranslate ==
    /\ bpc = "idle"
    /\ IF backend \in {"dummy", "absent"} \/ texts = <<>>
       THEN /\ ret' = Returned("batch_translate", texts)
            /\ bpc' = "done"
            /\ UNCHANGED <<task, results>>
       ELSE /\ task' = [i \in 1..Len(texts) |-> NewTask(texts[i])]
            /\ ret' = ret
            /\ IF concurrent_requests <= 1
               THEN bpc' = "sequential" /\ results' = <<>>
               ELSE bpc' = "pool" /\ results' = [i \in 1..Len(texts) |-> None]
    /\ UNCHANGED <<texts, max_retries, concurrent_requests, backend>>
    /\ UNCHANGED <<site_type, translation_config, soup, args, provider>>
    /\ UNCHANGED downloadVars
    /\ UNCHANGED configVars

\* the pool's threads that are not running a call: a pool of as many
\* threads as there are texts, and ThreadPoolExecutor(max_workers=workers)
PoolPerText(ts, workers) ==
    {w \in 1..Len(ts) : \A j \in 1..Len(ts) : ts[j].st = "running" => ts[j].worker # w}
FreeWorkers(ts, workers) ==
    {w \in 1..workers : \A j \in 1..Len(ts) : ts[j].st = "running" => ts[j].worker # w}

\* the loop takes the next text, or a free pool worker takes the oldest
\* submitted call
Begin(i) ==
    /\ task[i].st = "queued"
    /\ \/ /\ bpc = "sequential" /\ Running = {} /\ i = Len(results) + 1
          /\ task' = [task EXCEPT ![i].st = "running"]
       \/ /\ bpc = "pool"
          /\ FreeWorkers(task, concurrent_requests) # {}
          /\ \A j \in 1..(i - 1) : task[j].st # "queued"
          /\ task' = [task EXCEPT ![i].st = "running",
                                  ![i].worker = MinOf(FreeWorkers(task, concurrent_requests))]
    /\ UNCHANGED <<texts, max_retries, concurrent_requests, backend, results, bpc>>
    /\ UNCHANGED parserVars
    /\ UNCHANGED downloadVars
    /\ UNCHANGED configVars

\* translate_text returns r for call i
Finish(i, r, attempts, retries) ==
    /\ \/ /\ bpc = "single"
          /\ task' = [task EXCEPT ![i].st = "collected", ![i].result = r,
                                  ![i].attempts = attempts, ![i].retries = retries,
                                  ![i].target_writes = attempts]
          /\ ret' = Returned("translate_text", r)
          /\ bpc' = "done"
          /\ results' = results
       \/ /\ bpc = "sequential"
          /\ task' = [task EXCEPT ![i].st = "collected", ![i].result = r,
                                  ![i].attempts = attempts, ![i].retries = retries,
                                  ![i].order = Cardinality(Collected) + 1,
                                  ![i].writes = @ + 1,
                                  ![i].target_writes = attempts]
          /\ results' = Append(results, r)
          /\ UNCHANGED <<ret, bpc>>
       \/ /\ bpc = "pool"
          /\ task' = [task EXCEPT ![i].st = "finished", ![i].result = r,
                                  ![i].attempts = attempts, ![i].retries = retries,
                                  ![i].worker = 0,
                                  ![i].target_writes = attempts]
          /\ UNCHANGED <<ret, bpc, results>>
    /\ UNCHANGED <<texts, max_retries, concurrent_requests, backend>>
    /\ UNCHANGED <<site_type, translation_config, soup, args, provider>>
    /\ UNCHANGED downloadVars
    /\ UNCHANGED configVars

\* an empty or all-blank text is returned before the loop
ReturnBlank(i) ==
    /\ task[i].st = "running"
    /\ IsBlank(task[i].text)
    /\ Finish(i, task[i].text, task[i].attempts, task[i].retries)

MaxTexts == 3
MaxRetries == 1
MaxWorkers == 2

\* the attempts counted for one call; the loop never reaches it
AttemptCap == MaxRetries + 2

\* one pass of the loop whose try block returns
AttemptReturns(i) ==
    /\ task[i].st = "running"
    /\ task[i].attempts < AttemptCap
    /\ ~IsBlank(task[i].text)
    /\ LoopCondition(task[i].retries, max_retries)
    /\ \E o \in BackendOutcomes(backend) :
          /\ Attempt(task[i].text, o) # Raised
          /\ Finish(i, Attempt(task[i].text, o), task[i].attempts + 1, task[i].retries)

\* one pass of the loop whose try block raises: sleep and go round again,
\* or give the text back
AttemptRaises(i) ==
    /\ task[i].st = "running"
    /\ task[i].attempts < AttemptCap
    /\ ~IsBlank(task[i].text)
    /\ LoopCondition(task[i].retries, max_retries)
    /\ \E o \in BackendOutcomes(backend) : Attempt(task[i].text, o) = Raised
    /\ IF MayRetry(task[i].retries + 1, max_retries)
       THEN /\ task' = [task EXCEPT ![i].retries = @ + 1, ![i].attempts = @ + 1,
                                    ![i].sleeps = @ + 1, ![i].waited = @ + retry_delay,
                                    ![i].target_writes = @ + 1]
            /\ UNCHANGED <<texts, max_retries, concurrent_requests, backend, results, bpc>>
            /\ UNCHANGED parserVars
            /\ UNCHANGED downloadVars
            /\ UNCHANGED configVars
       ELSE Finish(i, task[i].text, task[i].attempts + 1, task[i].retries + 1)

\* the loop condition is false: the function ends without a return
\* statement and the call yields None
LoopFallsThrough(i) ==
    /\ task[i].st = "running"
    /\ ~IsBlank(task[i].text)
    /\ ~LoopCondition(task[i].retries, max_retries)
    /\ Finish(i, None, task[i].attempts, task[i].retries)

\* try: future.result(); except: texts[index]
FutureValue(r, text) == IF r = Raised THEN text ELSE r

\* as_completed hands out a finished future and its result is stored
Collect(i) ==
    /\ bpc = "pool"
    /\ task[i].st = "finished"
    /\ LET order == Cardinality(Collected) + 1
           slot == ResultSlot(i, order)
       IN /\ task' = [task EXCEPT ![i].st = "collected", ![i].order = order,
                                  ![slot].writes = @ + 1]
          /\ results' = [results EXCEPT ![slot] = FutureValue(task[i].result, texts[i])]
    /\ UNCHANGED <<texts, max_retries, concurrent_requests, backend, bpc>>
    /\ UNCHANGED parserVars
    /\ UNCHANGED downloadVars
    /\ UNCHANGED configVars

\* return results
ReturnBatch ==
    /\ bpc \in {"sequential", "pool"}
    /\ Collected = 1..Len(task)
    /\ ret' = Returned("batch_translate", results)
    /\ bpc' = "done"
    /\ UNCHANGED <<texts, max_retries, concurrent_requests, backend, task, results>>
    /\ UNCHANGED configVars
    /\ UNCHANGED <<site_type, translation_config, soup, args, provider>>
    /\ UNCHANGED downloadVars
    /\ UNCHANGED configVars

\* the i-th text of a batch: the second is blank, the third is longer than
\* the size ceiling, all differ
TextAt(i) ==
    CASE i = 2 -> Rep(" ", 2)
      [] i = 3 -> Rep("c", size_ceiling + 1)
      [] OTHER -> Rep("a", i)

\* no parser call is in progress
ParserIdle ==
    /\ chapters_to_download = <<>>
    /\ downloads = <<>>
    /\ ConfigIdle
    /\ site_type = "ncode"
    /\ translation_config = DisabledConfig
    /\ soup = [page |-> "none"]
    /\ args = [url |-> Url]
    /\ provider = NoProvider
    /\ ret = NoRet

InitBatch ==
    /\ ParserIdle
    /\ \E n \in 0..MaxTexts, first \in 1..2 : texts = [i \in 1..n |-> TextAt(i + first - 1)]
    /\ max_retries \in 0..MaxRetries
    /\ concurrent_requests \in 1..MaxWorkers
    /\ backend \in Backends
    /\ task = <<>>
    /\ results = <<>>
    /\ bpc = "idle"

NextBatch ==
    \/ CallTranslateText
    \/ CallBatchTranslate
    \/ \E i \in 1..Len(task) :
          \/ Begin(i)
          \/ ReturnBlank(i)
          \/ AttemptReturns(i)
          \/ AttemptRaises(i)
          \/ Collect(i)
    \/ ReturnBatch

SpecBatch == InitBatch /\ [][NextBatch]_vars

\* a step of the sequential loop, of a pool worker, or of the as_completed
\* loop
WorkerStep ==
    \E i \in 1..Len(task) :
       \/ Begin(i)
       \/ ReturnBlank(i)
       \/ AttemptReturns(i)
       \/ AttemptRaises(i)
       \/ Collect(i)

\* the executor keeps scheduling its workers and the calling thread keeps
\* running
MaxFairTexts == 2

InitBatchFair ==
    /\ ParserIdle
    /\ \E n \in 0..MaxFairTexts : texts = [i \in 1..n |-> TextAt(i)]
    /\ max_retries \in 0..MaxRetries
    /\ concurrent_requests \in 1..MaxWorkers
    /\ backend \in Backends
    /\ task = <<>>
    /\ results = <<>>
    /\ bpc = "idle"

SpecBatchFair ==
    /\ InitBatchFair
    /\ [][NextBatch]_vars
    /\ WF_vars(WorkerStep)
    /\ WF_vars(ReturnBatch)

(***************************************************************************)
(* Claims about translate_text and batch_translate                         *)
(***************************************************************************)
BatchReturned == bpc = "done" /\ ret.op = "batch_translate"

\* what translate_text can hand back for the text t
ResultsFor(t) == {t, None} \cup (IF IsBlank(t) THEN {} ELSE {Attempt(t, "ok"), <<>>})

\* C5: batch_translate returns a list as long as its input whose element
\* i is the value translate_text returned for input element i, whatever order
\* the pool workers complete in, on the sequential and on the pooled path;
\* with the pass-through translator of service "none" the list returned is the input.
BatchOrderPreserved ==
    BatchReturned =>
        /\ ret.kind = "return"
        /\ Len(ret.value) = Len(texts)
        /\ task # <<>> =>
              \A i \in 1..Len(texts) :
                 /\ task[i].text = texts[i]
                 /\ ret.value[i] = task[i].result
                 /\ ret.value[i] \in ResultsFor(texts[i])
        /\ backend = "dummy" => ret.value = texts

\* a pooled batch whose calls completed in another order than submitted
BatchOrderPreservedWitness ==
    /\ BatchReturned
    /\ concurrent_requests > 1
    /\ Len(texts) = 3
    /\ task # <<>>
    /\ task[3].order < task[1].order
    /\ ret.value[1] = Tr(texts[1])
    /\ ret.value[3] = texts[3]

\* C6 as stated: with a backend that always raises, translate_text makes
\* exactly max_retries+1 attempts and returns its text unchanged, and
\* batch_translate returns a list equal to its input; neither raises.
DegradeAfterAllAttempts ==
    (bpc = "done" /\ backend = "raises") =>
        /\ ret.kind = "return"
        /\ ret.op = "translate_text" =>
              /\ ret.value = texts[1]
              /\ task # <<>> /\ task[1].attempts = max_retries + 1
        /\ ret.op = "batch_translate" => ret.value = texts

\* C6 (amended): with a backend that always raises and max_retries >= 0,
\* translate_text of a text that is neither empty nor all white space makes
\* exactly max_retries+1 attempts and returns the text unchanged; an empty
\* or all-blank text is returned unchanged without any attempt;
\* batch_translate returns a list equal to its input; neither call raises.
DegradeNotFail ==
    backend = "raises" =>
        /\ \A i \in 1..Len(task) :
              task[i].st \in {"finished", "collected"} =>
                 /\ task[i].result = task[i].text
                 /\ task[i].attempts = IF IsBlank(task[i].text) THEN 0 ELSE max_retries + 1
        /\ bpc = "done" =>
              /\ ret.kind = "return"
              /\ ret.op = "translate_text" =>
                    /\ ret.value = texts[1]
                    /\ IsBlank(texts[1]) <=> task = <<>>
              /\ ret.op = "batch_translate" => ret.value = texts

\* a batch of three texts, the second blank, went through both attempts of
\* every other text and came back as the input
DegradeNotFailWitness ==
    /\ backend = "raises"
    /\ max_retries = 1
    /\ BatchReturned
    /\ Len(texts) = 3
    /\ ret.value = texts
    /\ \A i \in 1..3 : task[i].attempts = IF i = 2 THEN 0 ELSE 2

(***************************************************************************)
(* The parsers against the BaseTranslator interface: self.translator is    *)
(* any implementation of batch_translate                                   *)
(***************************************************************************)
\* what a translator's batch_translate may do with the list it is given:
\* return the translations, raise, return None, return a list with a None
\* in it, or return a list that is one short or one long
BatchAnswers == {"list", "raise", "none", "hole", "short", "long"}

\* self.translator.batch_translate(texts_for_translation, target_lang)
TranslatorBatchAnswer(ts, how) ==
    LET translations == [i \in 1..Len(ts) |-> Tr(ts[i])]
    IN CASE how = "list" -> ListAnswer(translations)
         [] how = "raise" -> RaiseAnswer
         [] how = "none" -> NoneAnswer
         [] how = "hole" -> ListAnswer([translations EXCEPT ![1] = None])
         [] how = "short" -> ListAnswer(SubSeq(translations, 1, Len(ts) - 1))
         [] how = "long" -> ListAnswer(Append(translations, Tr(<<>>)))

\* BaseSiteParser.batch_translate with the translation enabled and a
\* translator that answers as how says
ParserBatchTranslateVia(ts, how) ==
    IF ts = <<>> THEN ts
    ELSE ParserBatchRestore(ts, TranslatorBatchAnswer(ForTranslation(ts), how))

\* parse_novel_info with such a translator
ParseNovelInfoVia(cls, doc, url, how) ==
    LET translated == ParserBatchTranslateVia(ToTranslate(cls, doc), how)
    IN IF NovelInfoIndexError(cls, doc, translated)
       THEN Raises("parse_novel_info", "IndexError")
       ELSE Returned("parse_novel_info", NovelInfoFrom(cls, doc, url, translated))

\* parse_chapter_list with such a translator: how.arcs and how.titles are
\* its answers to the two batches
ParseChapterListVia(cls, doc, base_url, how) ==
    IF cls = "HamelnParser"
    THEN LET scan == HamelnScan(doc)
             chapters1 ==
                 IF scan.arc_titles # <<>>
                 THEN WithArcs(scan.chapters,
                               ArcMap(scan.arc_titles,
                                      ParserBatchTranslateVia(scan.arc_titles, how.arcs)))
                 ELSE scan.chapters
         IN IF scan.chapters # <<>>
            THEN WithTitles(chapters1,
                            ParserBatchTranslateVia(TitlesOf(scan.chapters), how.titles))
            ELSE chapters1
    ELSE LET chapters == ElemLoop(cls, doc.chapter_elems, 1, base_url)
         IN IF chapters # <<>>
            THEN WithTitles(chapters, ParserBatchTranslateVia(TitlesOf(chapters), how.titles))
            ELSE chapters

ViaParseNovelInfo ==
    /\ ret.kind = "none"
    /\ soup.page = "info"
    /\ \E how \in BatchAnswers :
          /\ provider' = [how |-> how]
          /\ ret' = ParseNovelInfoVia(ParserClass(site_type), soup, args.url, how)
    /\ UNCHANGED <<site_type, translation_config, soup, args>>
    /\ UNCHANGED downloadVars
    /\ UNCHANGED configVars
    /\ UNCHANGED batchVars
    /\ UNCHANGED downloadVars
    /\ UNCHANGED configVars

ViaParseChapterList ==
    /\ ret.kind = "none"
    /\ soup.page = "list"
    /\ \E how \in [arcs : BatchAnswers, titles : BatchAnswers] :
          /\ provider' = how
          /\ ret' = Returned("parse_chapter_list",
                             ParseChapterListVia(ParserClass(site_type), soup,
                                                 SITES(site_type), how))
    /\ UNCHANGED <<site_type, translation_config, soup, args>>
    /\ UNCHANGED downloadVars
    /\ UNCHANGED configVars
    /\ UNCHANGED batchVars
    /\ UNCHANGED downloadVars
    /\ UNCHANGED configVars

MaxViaRows == 2

EnabledConfig == Config(TRUE, "google", TRUE)

ViaPages(site) ==
    InfoPagesOf(site) \cup ContentPages
    \cup (IF site = "hameln"
          THEN {HamelnPage(ks, cuts) : ks \in SeqsUpTo(HamelnKinds, MaxViaRows),
                                       cuts \in SUBSET (1..(MaxViaRows - 1))}
          ELSE {ListPage([i \in 1..Len(ks) |-> ElemOf(ks[i], i)], <<>>) :
                   ks \in SeqsUpTo(ElemKinds, MaxViaRows)})

InitVia ==
    /\ site_type \in SiteTypes
    /\ translation_config = EnabledConfig
    /\ soup \in ViaPages(site_type)
    /\ args = [url |-> Url, with_hint |-> FALSE, chapter_title |-> None]
    /\ provider = NoProvider
    /\ ret = NoRet
    /\ BatchIdle

NextVia == ViaParseNovelInfo \/ ViaParseChapterList \/ DoParseChapterContent

SpecVia == InitVia /\ [][NextVia]_vars

(***************************************************************************)
(* Claims about translation failures inside the parsers                    *)
(***************************************************************************)
\* the batch was not translated: the translator raised or answered None
BatchFailed(how) == how \in {"raise", "none", "hole"}

ExpectedChunk(cfg, chunk, o) ==
    IF cfg.service = "none" THEN chunk
    ELSE CASE o = "ok" -> Tr(chunk)
           [] o = "empty" -> <<>>
           [] OTHER -> chunk

\* C12: when the content is translated chunk by chunk, the chunks returned
\* are as many as the source chunks and in their order; a chunk whose
\* translation fails is its own original text, every other chunk is its own
\* translation; and parse_chapter_content returns.
ChunkwiseFallback ==
    /\ (ret.op = "parse_chapter_content" /\ (args.with_hint => AcceptsTitleHint(ParserClass(site_type))))
          => ret.kind = "return"
    /\ (/\ ret.kind = "return"
        /\ translation_config.enabled /\ translation_config.translate_content
        /\ Chunks(ContentParagraphs(soup)) # <<>>) =>
          LET chunks0 == Chunks(ContentParagraphs(soup))
          IN /\ Len(ret.value.chunks) = Len(chunks0)
             /\ \A k \in 1..Len(chunks0) :
                   ret.value.chunks[k]
                      = ExpectedChunk(translation_config, chunks0[k], provider.chunks[k])

\* two chunks: the translation of the first failed and it came back as it
\* was, while the second came back translated
ChunkwiseFallbackWitness ==
    /\ ret.kind = "return"
    /\ translation_config.enabled /\ translation_config.service = "google"
    /\ Len(ChunkGroups(ContentParagraphs(soup))) = 2
    /\ provider.chunks = <<"raise", "ok">>
    /\ ret.value.chunks[1] = Chunks(ContentParagraphs(soup))[1]
    /\ ret.value.chunks[2] = Tr(Chunks(ContentParagraphs(soup))[2])

\* C13: translate_text attempts the provider at most max_retries+1 times;
\* one 5-second delay separates two consecutive attempts and none follows
\* the last attempt; once the call has returned (at the first success, or
\* after the last failure) no further attempt or delay is made and the
\* value returned stays.
RetryTiming ==
    /\ [](\A i \in 1..Len(task) :
             /\ task[i].attempts <= max_retries + 1
             /\ task[i].st = "running" =>
                   /\ task[i].attempts <= max_retries
                   /\ task[i].sleeps = task[i].attempts
             /\ task[i].st \in {"finished", "collected"} =>
                   task[i].sleeps = IF task[i].attempts = 0 THEN 0 ELSE task[i].attempts - 1
             /\ task[i].waited = 5 * task[i].sleeps)
    /\ [][\A i \in 1..Len(task) :
             task[i].st \in {"finished", "collected"} =>
                /\ task'[i].attempts = task[i].attempts
                /\ task'[i].sleeps = task[i].sleeps
                /\ task'[i].result = task[i].result]_vars

\* a call that failed, slept once, and succeeded at its second attempt
RetryTimingWitness ==
    /\ bpc = "done"
    /\ ret.op = "translate_text"
    /\ max_retries = 1
    /\ task # <<>>
    /\ task[1].attempts = 2
    /\ task[1].waited = 5
    /\ ret.value = Tr(texts[1])

\* C14: under fair scheduling of the workers every batch_translate call
\* that has started its loop or its pool eventually returns, with one
\* result for every input and every call collected; no call's retry
\* counter passes max_retries+1, so no retry loop runs on.
BatchInProgress == bpc \in {"sequential", "pool"}

BatchCompleted ==
    /\ bpc = "done"
    /\ ret = Returned("batch_translate", results)
    /\ Len(results) = Len(texts)
    /\ Collected = 1..Len(texts)

BatchTerminates ==
    /\ BatchInProgress ~> BatchCompleted
    /\ [](\A i \in 1..Len(task) : task[i].retries <= max_retries + 1)

\* a pooled batch of two texts on a backend that always raises has
\* returned
BatchTerminatesWitness ==
    /\ BatchCompleted
    /\ backend = "raises"
    /\ concurrent_requests > 1
    /\ Len(texts) = 2
    /\ \E i \in 1..Len(task) : task[i].attempts = max_retries + 1

\* C15: while a pooled batch_translate runs, the calls in flight are never
\* more than concurrent_requests, each is run by one of the pool's
\* concurrent_requests threads, and no thread runs two calls at once.
PoolWidth ==
    bpc = "pool" =>
       /\ Cardinality(Running) <= concurrent_requests
       /\ \A i \in Running : task[i].worker \in 1..concurrent_requests
       /\ \A i, j \in Running : task[i].worker = task[j].worker => i = j

\* the pool is full and a further call waits for a thread
PoolWidthWitness ==
    /\ bpc = "pool"
    /\ concurrent_requests = 2
    /\ Cardinality(Running) = 2
    /\ \E i \in 1..Len(task) : task[i].st = "queued"

\* C16: in a batch no slot of results is assigned twice, and when the
\* batch returns every slot was assigned once: the slot of an item whose
\* attempts all raised holds that item's original text, and the slot of
\* every other item holds what the backend returned for that item, whatever
\* happened to its neighbours.
Exhausted(i) == task[i].retries > max_retries

OwnTranslations(text) ==
    {Attempt(text, o) : o \in BackendOutcomes(backend)} \ {Raised}

BatchLoopReturned == BatchCompleted /\ task # <<>>

SlotIsolation ==
    /\ \A i \in 1..Len(task) : task[i].writes <= 1
    /\ bpc = "pool" =>
          \A i \in 1..Len(task) : task[i].writes = 0 => results[i] = None
    /\ BatchLoopReturned =>
          \A i \in 1..Len(texts) :
             /\ task[i].writes = 1
             /\ Exhausted(i) => results[i] = texts[i]
             /\ IsBlank(texts[i]) => results[i] = texts[i]
             /\ ~Exhausted(i) /\ ~IsBlank(texts[i]) => results[i] \in OwnTranslations(texts[i])

\* a pooled batch in which the first item's attempts all raised and the
\* third item was translated
SlotIsolationWitness ==
    /\ BatchLoopReturned
    /\ concurrent_requests > 1
    /\ Len(texts) = 3
    /\ Exhausted(1)
    /\ results[1] = texts[1]
    /\ ~Exhausted(3)
    /\ results[3] = Attempt(texts[3], "ok")

-----------------------------------------------------------------------------
\* translate_text on texts around the size ceiling

\* lengths of the three stretches a text is made of
StretchLens == {0, 1, 999, 4000, 4001}

StretchTexts ==
    {Cat(Cat(Rep("a", x), Rep("b", y)), Rep("c", z)) :
        x \in StretchLens, y \in StretchLens, z \in StretchLens}

InitWindow ==
    /\ ParserIdle
    /\ \E t \in StretchTexts : texts = <<t>>
    /\ max_retries = 0
    /\ concurrent_requests = 1
    /\ backend = "flaky"
    /\ task = <<>>
    /\ results = <<>>
    /\ bpc = "idle"

\* translate_text(texts[1]) on a backend that answers every call of the
\* pass the same way; provider records the texts handed to the backend
TranslateWindowed ==
    /\ bpc = "idle"
    /\ \E o \in BackendOutcomes(backend) :
          /\ provider' = [o |-> o,
                          calls |-> IF IsBlank(texts[1]) THEN <<>> ELSE BackendCalls(texts[1])]
          /\ ret' = Returned("translate_text", DeepTranslateText(texts[1], o, max_retries))
    /\ bpc' = "done"
    /\ UNCHANGED <<texts, max_retries, concurrent_requests, backend, task, results>>
    /\ UNCHANGED configVars
    /\ UNCHANGED <<site_type, translation_config, soup, args>>
    /\ UNCHANGED downloadVars
    /\ UNCHANGED configVars

NextWindow == TranslateWindowed

SpecWindow == InitWindow /\ [][NextWindow]_vars

\* C17: a text of at most 5000 characters goes to the backend in one call;
\* a longer one goes as windows of 1..4000 characters, as many as needed
\* and no more, whose concatenation in order is the text itself, and the
\* value returned is the concatenation, in the same order, of the
\* translations of the windows.
WindowedCalled == bpc = "done" /\ ret.op = "translate_text" /\ "calls" \in DOMAIN provider

WholeAtCeilingWitness ==
    /\ WindowedCalled
    /\ TextLen(texts[1]) = 5000
    /\ provider.calls = texts
    /\ provider.o = "ok"

-----------------------------------------------------------------------------
\* get_translator and DeepTranslator.__init__: which backend a
\* configuration selects

\* str.lower() on the service names used here
Lower(service) ==
    CASE service = "NONE" -> "none"
      [] service = "DeepL" -> "deepl"
      [] OTHER -> service

\* no service asks for an API key
KeyServicesNone == {}

\* the branches of __init__ that test api_key
KeyServices == {"deepl", "microsoft", "qcri", "papago", "yandex", "chatgpt"}

\* the services __init__ has a branch for
Services ==
    {"google", "deepl", "mymemory", "linguee", "pons", "libre", "microsoft", "qcri",
     "papago", "yandex", "chatgpt"}

\* bool(api_key): the key is neither None nor empty
HasKey(api_key) == api_key \notin {"", "<None>"}

\* the backend class a branch of __init__ constructs
ClassOf(service) ==
    CASE service = "google" -> "GoogleTranslator"
      [] service = "deepl" -> "DeepL"
      [] service = "mymemory" -> "MyMemoryTranslator"
      [] service = "linguee" -> "LingueeTranslator"
      [] service = "pons" -> "PonsTranslator"
      [] service = "libre" -> "LibreTranslator"
      [] service = "microsoft" -> "MicrosoftTranslator"
      [] service = "qcri" -> "QcriTranslator"
      [] service = "papago" -> "PapagoTranslator"
      [] service = "yandex" -> "YandexTranslator"
      [] OTHER -> "ChatGptTranslator"

\* '<Class>' in globals(): GoogleTranslator is imported with the library,
\* the other classes by the second import, all or none
InGlobals(class, classes) == class = "GoogleTranslator" \/ classes

\* the constructor of class raises: "service" when the constructors other
\* than GoogleTranslator's raise, "all" when every constructor does
CtorRaises(class, ctor) ==
    \/ ctor = "all"
    \/ ctor = "service" /\ class # "GoogleTranslator"

\* the class the if/elif chain of __init__ picks
BranchClass(service, api_key, classes) ==
    IF service = "google" THEN "GoogleTranslator"
    ELSE IF /\ service \in Services
            /\ service \in KeyServices => HasKey(api_key)
            /\ InGlobals(ClassOf(service), classes)
         THEN ClassOf(service)
    ELSE "GoogleTranslator"

\* DeepTranslator.__init__: self.translator
DeepTranslatorInit(service, api_key, library, classes, ctor) ==
    IF ~library THEN "absent"
    ELSE LET class == BranchClass(Lower(service), api_key, classes)
         IN IF ~CtorRaises(class, ctor) THEN class
            ELSE IF ~CtorRaises("GoogleTranslator", ctor) THEN "GoogleTranslator"
            ELSE "absent"

\* get_translator: "dummy" for a DummyTranslator, else the DeepTranslator's
\* self.translator
SelectTranslator(service, api_key, library, classes, ctor) ==
    IF ~library THEN "dummy"
    ELSE IF Lower(service) = "none" THEN "dummy"
    ELSE DeepTranslatorInit(service, api_key, library, classes, ctor)

ServiceNames == Services \cup {"none", "NONE", "DeepL", "bing"}
ApiKeys == {"", "<None>", "k"}
CtorFailures == {"ok", "service", "all"}
SelectTexts == {Rep("a", 1), Rep(" ", 1)}

InitSelect ==
    /\ chapters_to_download = <<>>
    /\ downloads = <<>>
    /\ ConfigIdle
    /\ site_type = "ncode"
    /\ translation_config = DisabledConfig
    /\ soup = [page |-> "none"]
    /\ \E service \in ServiceNames, api_key \in ApiKeys, library \in BOOLEAN,
          classes \in BOOLEAN, ctor \in CtorFailures :
          /\ args = [service |-> service, api_key |-> api_key, library |-> library,
                     classes |-> classes, ctor |-> ctor]
          /\ library = FALSE => ~classes /\ ctor = "ok"
    /\ provider = NoProvider
    /\ ret = NoRet
    /\ \E t \in SelectTexts : texts = <<t>>
    /\ max_retries = 0
    /\ concurrent_requests = 1
    /\ backend = "unset"
    /\ task = <<>>
    /\ results = <<>>
    /\ bpc = "config"

\* get_translator(service, api_key, ...)
GetTranslator ==
    /\ bpc = "config"
    /\ backend' = SelectTranslator(args.service, args.api_key, args.library,
                                   args.classes, args.ctor)
    /\ bpc' = "idle"
    /\ UNCHANGED <<texts, max_retries, concurrent_requests, task, results>>
    /\ UNCHANGED parserVars
    /\ UNCHANGED downloadVars
    /\ UNCHANGED configVars

NextSelect ==
    \/ GetTranslator
    \/ CallTranslateText
    \/ \E i \in 1..Len(task) : AttemptReturns(i) \/ AttemptRaises(i)

SpecSelect == InitSelect /\ [][NextSelect]_vars

Selected == bpc # "config"

PassThrough == backend \in {"dummy", "absent"}

\* the service is one __init__ has a branch for, and its key, if it needs
\* one, is given
Satisfied ==
    /\ Lower(args.service) \in Services
    /\ Lower(args.service) \in {"deepl", "microsoft", "qcri", "papago", "yandex", "chatgpt"}
          => args.api_key \notin {"", "<None>"}

\* a pass-through provider gave the text back
PassThroughReturns ==
    PassThrough /\ bpc = "done" => ret = Returned("translate_text", texts[1])

Constructible ==
    /\ Lower(args.service) = "google" \/ args.classes
    /\ args.ctor = "ok" \/ (args.ctor = "service" /\ Lower(args.service) = "google")

FallbackWitness ==
    /\ Selected
    /\ args.service = "yandex"
    /\ args.api_key = ""
    /\ args.classes
    /\ backend = "GoogleTranslator"

-----------------------------------------------------------------------------
\* SyosetuScraper.get_chapter_list, download_chapters and the exporters

\* URL_PATTERNS[site_type]['chapter'].format(base_url, novel_id, chapter)
ChapterUrl(site, base_url, novel_id, chapter) ==
    IF site = "hameln"
    THEN Cat(base_url, Cat(Str(<<"/", "n", "o", "v", "e", "l", "/">>),
             Cat(novel_id, Cat(Rep("/", 1), Cat(chapter, Str(DotHtml))))))
    ELSE Cat(base_url, Cat(Rep("/", 1), Cat(novel_id, Cat(Rep("/", 1), chapter))))

\* a loop that formats the url of every chapter, set or not
FormatUrlsAlways(site, chapters, base_url, novel_id) ==
    [i \in 1..Len(chapters) |->
        [chapters[i] EXCEPT !.url = ChapterUrl(site, base_url, novel_id,
                                               chapters[i].chapter_num)]]

\* the loop of get_chapter_list that fills in the missing urls
FormatUrls(site, chapters, base_url, novel_id) ==
    [i \in 1..Len(chapters) |->
        IF chapters[i].url \in {Absent, None, <<>>}
        THEN [chapters[i] EXCEPT !.url = ChapterUrl(site, base_url, novel_id,
                                                    chapters[i].chapter_num)]
        ELSE chapters[i]]

\* the chapter page the site serves at url: one paragraph naming the url
ChapterPageAt(url) ==
    ChapterPage(PageTitle, TRUE, <<Cat(Rep("p", 1), url)>>, <<>>)

\* what chapter_input.split("-") and int() make of the input
ParseChapterInput(chapter_input, n) ==
    CASE chapter_input.kind = "all" -> [valid |-> TRUE, chapter_range |-> <<>>]
      [] chapter_input.kind = "range" ->
           IF /\ 1 <= chapter_input.start /\ chapter_input.start <= n
              /\ 1 <= chapter_input.end /\ chapter_input.end <= n
           THEN [valid |-> TRUE,
                 chapter_range |-> <<chapter_input.start, chapter_input.end>>]
           ELSE [valid |-> FALSE, chapter_range |-> <<>>]
      [] chapter_input.kind = "single" ->
           IF 1 <= chapter_input.start /\ chapter_input.start <= n
           THEN [valid |-> TRUE,
                 chapter_range |-> <<chapter_input.start, chapter_input.start>>]
           ELSE [valid |-> FALSE, chapter_range |-> <<>>]
      [] OTHER -> [valid |-> FALSE, chapter_range |-> <<>>]

\* chapters_to_process: the 1-based positions of the chapters to fetch
ChaptersToProcess(chapters, chapter_range) ==
    IF chapter_range # <<>>
    THEN SelectSeq([k \in 1..MaxOf({0, chapter_range[2] - chapter_range[1] + 1}) |->
                       chapter_range[1] - 1 + k],
                   LAMBDA i : i <= Len(chapters))
    ELSE [k \in 1..Len(chapters) |-> k]

\* chapter.copy() with the fetched content and title
ChapterCopy(chapter, chapter_content) ==
    [index |-> chapter.index, title |-> chapter_content.title,
     chapter_num |-> chapter.chapter_num, url |-> chapter.url, arc |-> chapter.arc,
     publish_date |-> chapter.publish_date, content |-> chapter_content.content]

\* create_epub / create_pdf: `continue` unless the chapter's index lies in
\* the range
Included(chapters, chapter_range) ==
    IF chapter_range = <<>> THEN chapters
    ELSE SelectSeq(chapters,
                   LAMBDA ch : chapter_range[1] <= ch.index /\ ch.index <= chapter_range[2])

\* download_novel: the file written
DownloadNovel(chapters, format_type, chapter_range) ==
    [format_type |-> format_type, chapter_range |-> chapter_range,
     chapters |-> Included(chapters, chapter_range)]

\* the document parsed from an empty response body
EmptySoup(doc) ==
    [doc EXCEPT !.title_elem = None, !.content_elem = [present |-> FALSE, p |-> <<>>, text |-> <<>>],
                !.chapter_elems = <<>>, !.tables = <<>>]

\* a request whose failure is logged and answered with an empty document
MakeRequestSwallowing(doc, o) ==
    Returned("_make_request", IF o = "error" THEN EmptySoup(doc) ELSE doc)

\* _make_request(url): the parsed page, or the RequestException of
\* session.get / raise_for_status, raised again after logging
MakeRequest(doc, o) ==
    IF o = "error" THEN Raises("_make_request", "RequestException")
    ELSE Returned("_make_request", doc)

RequestOutcomes == {"ok", "error"}

\* the request log with one more answer of the site
Requested(o) == [provider EXCEPT !.requests = Append(@, o)]

\* a backend that translates every text it is given
AllOk(n) == [k \in 1..n |-> "ok"]

\* what BaseSiteParser.translate_text(text) hands to self.translator
TextSubmission(cfg, text) ==
    IF TranslatorOf(cfg) = "absent" \/ ~cfg.enabled \/ text = <<>> THEN <<>>
    ELSE <<Replace(text, Sep, Marker)>>

\* what BaseSiteParser.batch_translate(ts) hands to self.translator
BatchSubmission(cfg, ts) ==
    IF TranslatorOf(cfg) = "absent" \/ ~cfg.enabled \/ ts = <<>> THEN <<>>
    ELSE ForTranslation(ts)

\* the texts parse_novel_info submits
NovelInfoSubmissions(cls, cfg, doc) ==
    IF cfg.enabled THEN BatchSubmission(cfg, ToTranslate(cls, doc)) ELSE <<>>

\* the texts parse_chapter_list submits: arc labels, then chapter titles
ListSubmissions(cls, cfg, doc, base_url) ==
    IF ~cfg.enabled THEN <<>>
    ELSE IF cls = "HamelnParser"
    THEN BatchSubmission(cfg, HamelnScan(doc).arc_titles)
         \o BatchSubmission(cfg, TitlesOf(HamelnScan(doc).chapters))
    ELSE BatchSubmission(cfg, TitlesOf(ElemLoop(cls, doc.chapter_elems, 1, base_url)))

\* the texts parse_chapter_content submits: the title, then the chunks
ContentSubmissions(cls, cfg, doc, chapter_title) ==
    IF ~cfg.enabled THEN <<>>
    ELSE LET chunks == Chunks(ContentParagraphs(doc))
             Sub(k) == TextSubmission(cfg, chunks[k])
         IN TextSubmission(cfg, ChapterTitle(cls, doc, chapter_title))
            \o (IF cfg.translate_content
                THEN Flatten([k \in 1..Len(chunks) |-> Sub(k)]) ELSE <<>>)

\* the texts the try block of download_chapters submits
ExportSubmissions(cfg, novel_info) ==
    IF ~cfg.enabled THEN <<>>
    ELSE (IF cfg.translate_title THEN TextSubmission(cfg, novel_info.title) ELSE <<>>)
         \o (IF cfg.translate_content
             THEN TextSubmission(cfg, novel_info.description) ELSE <<>>)

\* the provider's log with the texts ts submitted after it
Submitted(log, ts) == [log EXCEPT !.submitted = @ \o ts]

\* the backend's answers during one parse_chapter_list call
ListAnswers(doc) ==
    [arcs |-> AllOk(Len(doc.tables)),
     titles |-> AllOk(Len(doc.chapter_elems) + Len(Flatten(doc.tables)))]

\* the backend's answers during one parse_chapter_content call
ContentAnswers(doc) == [title |-> "ok", chunks |-> AllOk(Len(Chunks(ContentParagraphs(doc))))]

\* scraper.get_novel_info(novel_id)
ScraperGetNovelInfo ==
    /\ bpc = "start"
    /\ \E o \in RequestOutcomes :
          LET response == MakeRequest(soup, o)
              cls == ParserClass(site_type)
          IN /\ IF response.kind = "raise"
                THEN /\ ret' = Raises("get_novel_info", response.exc)
                     /\ bpc' = "done"
                     /\ args' = args
                     /\ provider' = Requested(o)
                ELSE LET novel_info ==
                             ParseNovelInfo(cls, translation_config, response.value, Url,
                                            AllOk(Len(ToTranslate(cls, response.value))))
                     IN /\ provider' =
                              Submitted(Requested(o),
                                        NovelInfoSubmissions(cls, translation_config,
                                                             response.value))
                        /\ ret' = Returned("get_novel_info", novel_info)
                        /\ args' = [args EXCEPT !.novel_info = novel_info]
                        /\ bpc' = "info"
    /\ UNCHANGED <<site_type, translation_config, soup>>
    /\ UNCHANGED <<texts, max_retries, concurrent_requests, backend, task, results>>
    /\ UNCHANGED configVars
    /\ UNCHANGED downloadVars
    /\ UNCHANGED configVars

\* scraper.get_chapter_list(novel_id): the request fails, or the parsed
\* list is returned with its urls filled in
ScraperGetChapterList ==
    /\ bpc = "info"
    /\ \E o \in RequestOutcomes :
          LET response == MakeRequest(soup, o)
              cls == ParserClass(site_type)
          IN /\ IF response.kind = "raise"
                THEN /\ ret' = Raises("get_chapter_list", response.exc)
                     /\ bpc' = "done"
                     /\ args' = args
                     /\ provider' = Requested(o)
                ELSE LET chapters ==
                             FormatUrls(site_type,
                                        ParseChapterList(cls, translation_config,
                                                         response.value, args.base_url,
                                                         ListAnswers(response.value)),
                                        args.base_url, args.novel_id)
                     IN /\ provider' =
                              Submitted(Requested(o),
                                        ListSubmissions(cls, translation_config,
                                                        response.value, args.base_url))
                        /\ ret' = Returned("get_chapter_list", chapters)
                        /\ args' = [args EXCEPT !.chapters = chapters]
                        /\ bpc' = "listed"
    /\ UNCHANGED <<site_type, translation_config, soup>>
    /\ UNCHANGED <<texts, max_retries, concurrent_requests, backend, task, results>>
    /\ UNCHANGED configVars
    /\ UNCHANGED downloadVars
    /\ UNCHANGED configVars

\* download_chapters up to the fetch loop: the input is parsed and an
\* invalid one ends the call
DownloadChapters ==
    /\ bpc = "listed"
    /\ LET parsed == ParseChapterInput(args.chapter_input, Len(args.chapters))
       IN IF ~parsed.valid
          THEN /\ ret' = Returned("download_chapters", <<>>)
               /\ bpc' = "done"
               /\ args' = args
          ELSE /\ args' = [args EXCEPT
                              !.chapter_range = parsed.chapter_range,
                              !.chapters_to_process =
                                  ChaptersToProcess(args.chapters, parsed.chapter_range)]
               /\ bpc' = "fetching"
               /\ ret' = NoRet
    /\ UNCHANGED <<site_type, translation_config, soup, provider>>
    /\ UNCHANGED <<texts, max_retries, concurrent_requests, backend, task, results>>
    /\ UNCHANGED configVars
    /\ UNCHANGED downloadVars
    /\ UNCHANGED configVars

\* one pass of the fetch loop: scraper.get_chapter_content(url, title)
\* raises, or the copy of the chapter is appended
FetchChapter ==
    /\ bpc = "fetching"
    /\ Len(chapters_to_download) < Len(args.chapters_to_process)
    /\ \E o \in RequestOutcomes :
          LET chapter == args.chapters[args.chapters_to_process[Len(chapters_to_download) + 1]]
              response == MakeRequest(ChapterPageAt(chapter.url), o)
              fetched ==
                  IF response.kind = "raise" THEN response
                  ELSE CallParseChapterContent(
                           ParserClass(site_type), translation_config, response.value,
                           [url |-> chapter.url, with_hint |-> TRUE,
                            chapter_title |-> chapter.title],
                           ContentAnswers(response.value))
          IN /\ provider' =
                   IF fetched.kind = "raise" THEN Requested(o)
                   ELSE Submitted(Requested(o),
                                  ContentSubmissions(ParserClass(site_type), translation_config,
                                                     response.value, chapter.title))
             /\ IF fetched.kind = "raise"
                THEN /\ ret' = Raises("download_chapters", fetched.exc)
                     /\ bpc' = "done"
                     /\ UNCHANGED chapters_to_download
                ELSE /\ chapters_to_download' =
                            Append(chapters_to_download, ChapterCopy(chapter, fetched.value))
                     /\ UNCHANGED <<ret, bpc>>
    /\ UNCHANGED <<site_type, translation_config, soup, args, downloads>>
    /\ UNCHANGED <<texts, max_retries, concurrent_requests, backend, task, results>>
    /\ UNCHANGED configVars

\* the try block after the loop: the novel's title and description are
\* handed to the parser's translate_text once more, then download_novel
\* writes the file, or raises (the export library is missing) and the
\* error is printed
ExportNovel ==
    /\ bpc = "fetching"
    /\ Len(chapters_to_download) = Len(args.chapters_to_process)
    /\ \/ \E format_type \in {"epub", "pdf"} :
             downloads' = Append(downloads,
                                 DownloadNovel(chapters_to_download, format_type,
                                               args.chapter_range))
       \/ downloads' = downloads
    /\ ret' = Returned("download_chapters", <<>>)
    /\ bpc' = "done"
    /\ provider' = Submitted(provider, ExportSubmissions(translation_config, args.novel_info))
    /\ UNCHANGED <<site_type, translation_config, soup, args, chapters_to_download>>
    /\ UNCHANGED <<texts, max_retries, concurrent_requests, backend, task, results>>
    /\ UNCHANGED configVars

MaxDownloadRows == 3

\* a novel's page: the elements of its information block and of its
\* chapter index (EmptySoup reads the fields of a chapter page as well)
NovelPage(list) ==
    [page |-> "novel", title_elem |-> RawTitle, author_elem |-> None, desc_elem |-> None,
     genre_elem |-> None, age_notice |-> FALSE, keyword_elems |-> <<>>, tag_elems |-> <<>>,
     chapter_elems |-> list.chapter_elems, tables |-> list.tables,
     content_elem |-> [present |-> FALSE, p |-> <<>>, text |-> <<>>]]

\* Hameln indexes of chapter rows with and without link, cut into tables,
\* and a Syosetu list of two chapters
DownloadPages(site) ==
    IF site = "hameln"
    THEN {NovelPage(HamelnPage(ks, cuts)) :
             ks \in SeqsUpTo({"c", "n"}, MaxDownloadRows),
             cuts \in SUBSET (1..(MaxDownloadRows - 1))}
    ELSE {NovelPage(ListPage(<<ElemOf("c", 1), ElemOf("c", 2)>>, <<>>)),
          NovelPage(ListPage(<<ElemOf("c", 1), ElemOf("r", 2), ElemOf("h", 3)>>, <<>>))}

\* "0", "start-end", a single number, and an input that is no number
ChapterInputs ==
    [kind : {"all", "malformed"}, start : {0}, end : {0}]
    \cup [kind : {"range"}, start : 0..(MaxDownloadRows + 1), end : 0..(MaxDownloadRows + 1)]
    \cup [kind : {"single"}, start : 0..(MaxDownloadRows + 1), end : {0}]

InitDownload ==
    /\ site_type \in {"ncode", "mnlt", "hameln"}
    /\ translation_config \in {DisabledConfig, EnabledConfig}
    /\ soup \in DownloadPages(site_type)
    /\ \E chapter_input \in ChapterInputs :
          args = [novel_id |-> NovelId, base_url |-> SITES(site_type),
                  novel_info |-> <<>>, chapters |-> <<>>,
                  chapter_input |-> chapter_input, chapter_range |-> <<>>,
                  chapters_to_process |-> <<>>]
    /\ provider = [requests |-> <<>>, submitted |-> <<>>]
    /\ ret = NoRet
    /\ texts = <<>>
    /\ max_retries = default_max_retries
    /\ concurrent_requests = default_concurrent_requests
    /\ backend = "none"
    /\ task = <<>>
    /\ results = <<>>
    /\ bpc = "start"
    /\ chapters_to_download = <<>>
    /\ downloads = <<>>
    /\ ConfigIdle

NextDownload ==
    \/ ScraperGetNovelInfo
    \/ ScraperGetChapterList
    \/ DownloadChapters
    \/ FetchChapter
    \/ ExportNovel

SpecDownload == InitDownload /\ [][NextDownload]_vars

\* C19: a file exported for a range start-end, 1 <= start <= end <= N,
\* holds exactly the chapters at positions start..end of the chapter list,
\* in order: every chapter fetched for the range and no other.
RangeChapters ==
    [k \in 1..(args.chapter_range[2] - args.chapter_range[1] + 1) |->
        ChapterCopy(args.chapters[args.chapter_range[1] - 1 + k],
                    [title |-> args.chapters[args.chapter_range[1] - 1 + k].title,
                     content |-> Cat(Rep("p", 1),
                                     args.chapters[args.chapter_range[1] - 1 + k].url)])]

RangeExport ==
    \A f \in 1..Len(downloads) :
       /\ downloads[f].chapter_range # <<>>
       /\ downloads[f].chapter_range[1] <= downloads[f].chapter_range[2]
       => /\ downloads[f].chapters = chapters_to_download
          /\ downloads[f].chapters = RangeChapters

\* C20: once a request of get_novel_info, get_chapter_list or
\* get_chapter_content has failed, the call has raised the request's
\* exception and nothing ran after it: no novel information, chapter list
\* or chapter was made up for the failed request, and a download in which a
\* chapter's request failed has written no file.
RequestFailed == \E k \in 1..Len(provider.requests) : provider.requests[k] = "error"

FailedFetchRaises ==
    "requests" \in DOMAIN provider /\ RequestFailed =>
       /\ ret.kind = "raise"
       /\ ret.exc = "RequestException"
       /\ bpc = "done"
       /\ provider.requests[Len(provider.requests)] = "error"
       /\ downloads = <<>>
       /\ ret.op = "get_novel_info" => args.novel_info = <<>> /\ args.chapters = <<>>
       /\ ret.op = "get_chapter_list" => args.chapters = <<>>
       /\ ret.op = "download_chapters" =>
             /\ Len(chapters_to_download) = Len(provider.requests) - 3
             /\ \A k \in 1..Len(chapters_to_download) :
                   chapters_to_download[k].content # NoContent

\* the request for the second chapter of a download failed after the first
\* chapter was fetched
FailedFetchRaisesWitness ==
    /\ "requests" \in DOMAIN provider
    /\ provider.requests = <<"ok", "ok", "ok", "error">>
    /\ Len(args.chapters_to_process) >= 2
    /\ Len(chapters_to_download) = 1
    /\ ret = Raises("download_chapters", "RequestException")
    /\ downloads = <<>>

(***************************************************************************)
(* The translate_title and translate_content switches                      *)
(***************************************************************************)
\* the chapter list before any title or arc is translated
UntranslatedList(cls, doc, base_url) ==
    IF cls = "HamelnParser" THEN HamelnScan(doc).chapters
    ELSE ElemLoop(cls, doc.chapter_elems, 1, base_url)

\* C21: with translation enabled and translate_title false, the chapter
\* titles returned by parse_chapter_list and parse_chapter_content were not
\* sent to the provider and are the original ones; with translate_content
\* false the chunks were not sent to the provider and are the original ones.
SwitchesHonoured ==
    LET cfg == translation_config
        cls == ParserClass(site_type)
        content_op == ret.op \in {"parse_chapter_content", "get_chapter_content"}
    IN (ret.kind = "return" /\ cfg.enabled) =>
          /\ (content_op /\ ~cfg.translate_title) =>
                 ret.value.title = ChapterTitle(cls, soup, args.chapter_title)
          /\ (content_op /\ ~cfg.translate_content) =>
                 ret.value.chunks = ChunksOrDefault(Chunks(ContentParagraphs(soup)))
          /\ (ret.op = "parse_chapter_list" /\ ~cfg.translate_title) =>
                 TitlesOf(ret.value) = TitlesOf(UntranslatedList(cls, soup, args.base_url))

\* the translate_content half alone (it holds)
ContentSwitchHonoured ==
    (/\ ret.kind = "return"
     /\ ret.op \in {"parse_chapter_content", "get_chapter_content"}
     /\ translation_config.enabled
     /\ ~translation_config.translate_content) =>
        ret.value.chunks = ChunksOrDefault(Chunks(ContentParagraphs(soup)))

(***************************************************************************)
(* The configuration file (src/config.py).  DEFAULT_CONFIG is one dict    *)
(* object whose values are two nested dict objects, "general" and          *)
(* "translation"; every config a call returns refers to the same two       *)
(* nested objects.  json.dump followed by json.load gives back the same    *)
(* dict of strings, booleans and numbers.                                  *)
(***************************************************************************)
\* d.update(values): the keys of values are set, the others kept
DictUpdate(d, values) ==
    [k \in DOMAIN d \cup DOMAIN values |-> IF k \in DOMAIN values THEN values[k] ELSE d[k]]

JsonFile(data) == [kind |-> "json", data |-> data]
CorruptFile == [kind |-> "corrupt", data |-> FactoryDefaults]

\* load_config with DEFAULT_CONFIG holding D: the new contents of
\* DEFAULT_CONFIG and of the file, and the dict returned.
\* merged_config = DEFAULT_CONFIG.copy() copies the outer dict only, so
\* merged_config[section].update(values) writes into DEFAULT_CONFIG's own
\* nested dicts
LoadConfig(D, file) ==
    IF file.kind = "json"
    THEN LET merged ==
                 [section \in DOMAIN D |->
                     IF section \in DOMAIN file.data
                     THEN DictUpdate(D[section], file.data[section])
                     ELSE D[section]]
         IN [D |-> merged, file |-> file, config |-> merged]
    ELSE IF file.kind = "corrupt" THEN [D |-> D, file |-> file, config |-> D]
    ELSE [D |-> D, file |-> JsonFile(D), config |-> D]

\* update_config(section, key, value)
UpdateConfig(D, file, setting) ==
    LET loaded == LoadConfig(D, file)
        config == [loaded.config EXCEPT
                      ![setting[1]] = DictUpdate(@, setting[2] :> setting[3])]
    IN [D |-> config, file |-> JsonFile(config), config |-> config]

\* the update_config calls of process_cli_args, in the order of the code
Given(a, option) == option \in DOMAIN a.options
Truthy(a, option) == Given(a, option) /\ a.options[option] # ""

CliSettings(a) ==
    (IF Given(a, "delay") THEN << <<"general", "delay", a.options.delay>> >> ELSE <<>>)
    \o (IF Truthy(a, "translation")
        THEN << <<"translation", "enabled", a.options.translation = "enable">> >> ELSE <<>>)
    \o (IF Truthy(a, "translator")
        THEN << <<"translation", "service", a.options.translator>> >> ELSE <<>>)
    \o (IF Truthy(a, "api_key")
        THEN << <<"translation", "api_key", a.options.api_key>> >> ELSE <<>>)
    \o (IF Truthy(a, "target_lang")
        THEN << <<"translation", "target_language", a.options.target_lang>> >> ELSE <<>>)
    \o (IF Truthy(a, "translate_title")
        THEN << <<"translation", "translate_title", a.options.translate_title = "yes">> >>
        ELSE <<>>)
    \o (IF Truthy(a, "translate_content")
        THEN << <<"translation", "translate_content", a.options.translate_content = "yes">> >>
        ELSE <<>>)
    \o (IF Given(a, "concurrent_requests")
        THEN << <<"translation", "concurrent_requests", a.options.concurrent_requests>> >>
        ELSE <<>>)
    \o (IF Given(a, "request_delay")
        THEN << <<"translation", "request_delay", a.options.request_delay>> >> ELSE <<>>)
    \o (IF Given(a, "max_retries")
        THEN << <<"translation", "max_retries", a.options.max_retries>> >> ELSE <<>>)

RECURSIVE ApplySettings(_, _)
ApplySettings(st, settings) ==
    IF settings = <<>> THEN st
    ELSE ApplySettings(UpdateConfig(st.D, st.file, settings[1]), Tail(settings))

\* process_cli_args(args)
ProcessCliArgs(D, file, a) ==
    LET st == ApplySettings(LoadConfig(D, file), CliSettings(a))
    IN IF a.reset_config
       THEN [D |-> st.D, file |-> JsonFile(st.D), config |-> st.D]
       ELSE st

\* configuration files found at start: none, an unreadable one, the
\* defaults as written by an earlier run, and files a user has changed
ConfigFiles ==
    {NoFile, CorruptFile, JsonFile(FactoryDefaults),
     JsonFile([translation |-> [enabled |-> TRUE]]),
     JsonFile([general |-> [delay |-> 20], translation |-> [service |-> "deepl", api_key |-> "k"]]),
     JsonFile([translation |-> [max_retries |-> 0, request_delay |-> 5]])}

CliArg(options, show_config, reset_config) ==
    [options |-> options, show_config |-> show_config, reset_config |-> reset_config]

\* command lines; an option not given is absent from options
CliArgs ==
    {CliArg(<<>>, FALSE, FALSE), CliArg(<<>>, TRUE, FALSE), CliArg(<<>>, FALSE, TRUE),
     CliArg([delay |-> 20], FALSE, TRUE),
     CliArg([translation |-> "enable"], FALSE, FALSE),
     CliArg([translation |-> "disable", api_key |-> ""], FALSE, FALSE),
     CliArg([translator |-> "deepl", api_key |-> "k"], FALSE, FALSE),
     CliArg([translate_title |-> "no", max_retries |-> 0 - 1], FALSE, FALSE)}

UpdateSettings == {<<"general", "delay", 20>>, <<"translation", "enabled", TRUE>>}

InitConfig ==
    /\ DEFAULT_CONFIG = FactoryDefaults
    /\ config_file \in ConfigFiles
    /\ chapters_to_download = <<>>
    /\ downloads = <<>>
    /\ site_type = "ncode"
    /\ translation_config = DisabledConfig
    /\ soup = [page |-> "none"]
    /\ args = CliArg(<<>>, FALSE, FALSE)
    /\ provider = NoProvider
    /\ ret = NoRet
    /\ texts = <<>>
    /\ max_retries = default_max_retries
    /\ concurrent_requests = default_concurrent_requests
    /\ backend = "none"
    /\ task = <<>>
    /\ results = <<>>
    /\ bpc = "idle"

ConfigCall(op, st) ==
    /\ DEFAULT_CONFIG' = st.D
    /\ config_file' = st.file
    /\ ret' = Returned(op, st.config)
    /\ UNCHANGED <<site_type, translation_config, soup, provider>>
    /\ UNCHANGED batchVars
    /\ UNCHANGED downloadVars

\* load_config(), as SyosetuScraper.__init__ calls it
DoLoadConfig ==
    /\ ConfigCall("load_config", LoadConfig(DEFAULT_CONFIG, config_file))
    /\ UNCHANGED args

\* update_config(section, key, value)
DoUpdateConfig ==
    \E setting \in UpdateSettings :
       /\ ConfigCall("update_config", UpdateConfig(DEFAULT_CONFIG, config_file, setting))
       /\ UNCHANGED args

\* process_cli_args(args)
DoProcessCliArgs ==
    \E a \in CliArgs :
       /\ ConfigCall("process_cli_args", ProcessCliArgs(DEFAULT_CONFIG, config_file, a))
       /\ args' = a

NextConfig == DoLoadConfig \/ DoUpdateConfig \/ DoProcessCliArgs

SpecConfig == InitConfig /\ [][NextConfig]_vars

\* C22: after process_cli_args has run with --reset-config, the saved
\* configuration file and the returned configuration equal the factory
\* defaults, whatever file existed before and whatever load_config and
\* update_config calls preceded it.
ResetRestoresDefaults ==
    (ret.op = "process_cli_args" /\ args.reset_config) =>
        /\ config_file = JsonFile(FactoryDefaults)
        /\ ret.value = FactoryDefaults

(***************************************************************************)
(* get_chapter_list: the urls                                              *)
(***************************************************************************)
\* the url the site's pattern gives for one chapter, written out
PatternUrl(site, base_url, novel_id, chapter_num) ==
    IF site = "hameln"
    THEN Join(<<base_url, Str(<<"n", "o", "v", "e", "l">>), novel_id,
                Cat(chapter_num, Str(DotHtml))>>, Rep("/", 1))
    ELSE Join(<<base_url, novel_id, chapter_num>>, Rep("/", 1))

UrlUnset(url) == url = Absent \/ url = None \/ url = <<>>

\* C23: after get_chapter_list every chapter has a non-empty url; a url
\* set by the extractor is unchanged, an unset one is the site's chapter
\* pattern filled with base_url, novel_id and the chapter's chapter_num,
\* and no other field of any chapter is changed.
UrlsFilled ==
    (ret.op = "get_chapter_list" /\ ret.kind = "return") =>
        LET extracted == ParseChapterList(ParserClass(site_type), translation_config, soup,
                                          args.base_url, ListAnswers(soup))
            chapters == ret.value
        IN /\ Len(chapters) = Len(extracted)
           /\ \A i \in 1..Len(chapters) :
                 /\ ~UrlUnset(chapters[i].url)
                 /\ ~UrlUnset(extracted[i].url) => chapters[i].url = extracted[i].url
                 /\ UrlUnset(extracted[i].url) =>
                       chapters[i].url = PatternUrl(site_type, args.base_url, args.novel_id,
                                                    chapters[i].chapter_num)
                 /\ [chapters[i] EXCEPT !.url = extracted[i].url] = extracted[i]

\* C23 witness: a list was returned in which the extractor had set the url
\* of one chapter and left the url of another unset.
UrlsFilledWitness ==
    /\ ret.op = "get_chapter_list"
    /\ ret.kind = "return"
    /\ LET extracted == ParseChapterList(ParserClass(site_type), translation_config, soup,
                                         args.base_url, ListAnswers(soup))
       IN /\ \E i \in 1..Len(extracted) : ~UrlUnset(extracted[i].url)
          /\ \E i \in 1..Len(extracted) :
                UrlUnset(extracted[i].url) /\ extracted[i].chapter_num = Decimal(i)

(***************************************************************************)
(* Shared state of the pool workers                                        *)
(***************************************************************************)
\* C24: while a batch runs in the pool, no worker writes to state shared
\* between the workers: the provider and its backend (target language,
\* retry and delay settings) are only read by the translate_text calls.
WorkersOnlyRead ==
    bpc = "pool" => \A i \in 1..Len(task) : task[i].target_writes = 0

\* two calls of one batch were running on two pool threads after each had
\* assigned the backend's target
TwoWorkersWrote ==
    /\ bpc = "pool"
    /\ \E i, j \in Running :
          /\ task[i].worker # task[j].worker
          /\ task[i].target_writes > 0
          /\ task[j].target_writes > 0

(***************************************************************************)
(* Hameln arc labels                                                       *)
(***************************************************************************)
HamelnListTranslated ==
    /\ ret.op = "parse_chapter_list"
    /\ ret.kind = "return"
    /\ ParserClass(site_type) = "HamelnParser"
    /\ translation_config.enabled

\* C25: in one Hameln parse_chapter_list call with translation enabled,
\* each distinct arc label is submitted to the provider at most once, also
\* when several arc headers carry the same label, and every chapter's arc
\* is the translation of its own source label.
ArcSubmittedOnce ==
    HamelnListTranslated =>
        LET scan == HamelnScan(soup)
            arc_titles == scan.arc_titles
            labels == {arc_titles[k] : k \in 1..Len(arc_titles)}
            translated == ParserBatchTranslate(translation_config, arc_titles, provider.arcs)
        IN /\ Len(provider.arcs) <= Cardinality(labels)
           /\ \A i \in 1..Len(ret.value) :
                 scan.chapters[i].arc \in labels =>
                    \E k \in 1..Len(arc_titles) :
                       /\ arc_titles[k] = scan.chapters[i].arc
                       /\ ret.value[i].arc = translated[k]

\* the second half alone: every chapter's arc is what the provider made of
\* one submission of its own label
ArcOwnTranslation ==
    HamelnListTranslated =>
        LET scan == HamelnScan(soup)
            arc_titles == scan.arc_titles
            translated == ParserBatchTranslate(translation_config, arc_titles, provider.arcs)
        IN \A i \in 1..Len(ret.value) :
              (\E k \in 1..Len(arc_titles) : arc_titles[k] = scan.chapters[i].arc) =>
                 \E k \in 1..Len(arc_titles) :
                    /\ arc_titles[k] = scan.chapters[i].arc
                    /\ ret.value[i].arc = translated[k]

(***************************************************************************)
(* Texts submitted to the provider during one scrape and export            *)
(***************************************************************************)
\* C26: during one scrape and export with translation enabled, each source
\* string (novel title, novel description, each chapter title) is
\* submitted to the provider at most once: a text that is already a
\* translation result (the novel info returned by parse_novel_info, a
\* chapter-list title passed as title hint) is never submitted again.
SubmittedOnce ==
    translation_config.enabled =>
        \A i, j \in 1..Len(provider.submitted) :
           i < j =>
              /\ provider.submitted[j] # provider.submitted[i]
              /\ provider.submitted[j] # Tr(provider.submitted[i])

(***************************************************************************)
(* Hameln chapter rows                                                     *)
(***************************************************************************)
\* the chapter rows of the document that hold a link, in document order
LinkedRows(tables) == SelectSeq(DocRows(tables), LAMBDA row : row.kind = "chapter" /\ row.link)

\* C27: HamelnParser.parse_chapter_list returns exactly one chapter for
\* every chapter row that has a link, in document order; no chapter row is
\* dropped, also not one that sits in the same table as an arc header (a
\* table with a bold cell).
EveryLinkedRowReturned ==
    (ListReturned /\ ParserClass(site_type) = "HamelnParser") =>
        LET linked == LinkedRows(soup.tables)
        IN /\ Len(ret.value) = Len(linked)
           /\ ~translation_config.enabled =>
                 \A i \in 1..Len(linked) : ret.value[i].title = RowTitle(linked[i].pos)

\* the same for documents in which every arc header has a table of its own
RowsReturnedApartFromHeaders ==
    (/\ ListReturned
     /\ ParserClass(site_type) = "HamelnParser"
     /\ \A t \in 1..Len(soup.tables) :
           ArcRows(soup.tables[t]) # <<>> => ChapterRows(soup.tables[t]) = <<>>) =>
        LET linked == LinkedRows(soup.tables)
        IN /\ Len(ret.value) = Len(linked)
           /\ ~translation_config.enabled =>
                 \A i \in 1..Len(linked) : ret.value[i].title = RowTitle(linked[i].pos)

(***************************************************************************)
(* Every max_retries the configuration accepts                             *)
(***************************************************************************)
\* translators whose backend returns a string or raises
InitRetries ==
    /\ ParserIdle
    /\ \E n \in 0..MaxFairTexts : texts = [i \in 1..n |-> TextAt(i)]
    /\ max_retries \in (0 - 1)..MaxRetries   \* --max-retries has no lower limit
    /\ concurrent_requests \in 1..MaxWorkers
    /\ backend \in {"dummy", "absent", "strings", "raises"}
    /\ task = <<>>
    /\ results = <<>>
    /\ bpc = "idle"

NextRetries ==
    \/ NextBatch
    \/ \E i \in 1..Len(task) : LoopFallsThrough(i)

SpecRetries == InitRetries /\ [][NextRetries]_vars

\* C28: for every integer max_retries the configuration accepts, negative
\* ones included, translate_text returns a string (the translation or the
\* original text) and never None, and batch_translate returns a list
\* without a None and without an unfilled slot.
AlwaysAString ==
    /\ (ret.op = "translate_text" /\ ret.kind = "return") => ret.value # None
    /\ (ret.op = "batch_translate" /\ ret.kind = "return") =>
          /\ Len(ret.value) = Len(texts)
          /\ \A i \in 1..Len(texts) : ret.value[i] # None

\* the same for the values of max_retries from 0 upwards
AlwaysAStringFromZero ==
    max_retries >= 0 => AlwaysAString

(***************************************************************************)
(* The paragraph marker round trip with a pass-through provider            *)
(***************************************************************************)
MaxPieces == 3

\* ' PARAGRAPH_BREAK': the marker without its last blank
MarkerHead == SubSeq(Marker, 1, Len(Marker) - 1)

\* texts put together from a letter, a newline, the marker and its head
RECURSIVE JoinPieces(_)
JoinPieces(pieces) ==
    IF pieces = <<>> THEN <<>> ELSE Cat(pieces[1], JoinPieces(Tail(pieces)))

RoundTripTexts ==
    {JoinPieces(ps) : ps \in SeqsUpTo({Rep("a", 1), Rep(NL, 1), Marker, MarkerHead}, MaxPieces)}

PassThroughConfig == Config(TRUE, "none", TRUE)

InitRoundTrip ==
    /\ chapters_to_download = <<>>
    /\ downloads = <<>>
    /\ ConfigIdle
    /\ site_type = "ncode"
    /\ translation_config = PassThroughConfig
    /\ soup = [page |-> "none"]
    /\ args = [url |-> Url]
    /\ provider = NoProvider
    /\ ret = NoRet
    /\ \E t \in RoundTripTexts : texts \in {<<t>>, <<Cat(Rep("b", 1), Sep), t>>}
    /\ max_retries = default_max_retries
    /\ concurrent_requests = default_concurrent_requests
    /\ backend = "dummy"
    /\ task = <<>>
    /\ results = <<>>
    /\ bpc = "idle"

\* parser.translate_text(texts[0])
DoParserTranslateText ==
    /\ bpc = "idle"
    /\ ret' = Returned("translate_text", ParserTranslateText(translation_config, texts[1], "ok"))
    /\ bpc' = "done"
    /\ UNCHANGED <<site_type, translation_config, soup, args, provider>>
    /\ UNCHANGED <<texts, max_retries, concurrent_requests, backend, task, results>>
    /\ UNCHANGED downloadVars
    /\ UNCHANGED configVars

\* parser.batch_translate(texts)
DoParserBatchTranslate ==
    /\ bpc = "idle"
    /\ ret' = Returned("batch_translate",
                       ParserBatchTranslate(translation_config, texts, AllOk(Len(texts))))
    /\ bpc' = "done"
    /\ UNCHANGED <<site_type, translation_config, soup, args, provider>>
    /\ UNCHANGED <<texts, max_retries, concurrent_requests, backend, task, results>>
    /\ UNCHANGED downloadVars
    /\ UNCHANGED configVars

NextRoundTrip == DoParserTranslateText \/ DoParserBatchTranslate

SpecRoundTrip == InitRoundTrip /\ [][NextRoundTrip]_vars

\* C29: with translation enabled and a pass-through provider,
\* BaseSiteParser.translate_text(t) = t and batch_translate(ts) = ts for
\* every text, also for texts with runs of three or more newlines and for
\* texts that contain the literal marker ' PARAGRAPH_BREAK '.
RoundTripLossless ==
    /\ (ret.op = "translate_text" /\ ret.kind = "return") => ret.value = texts[1]
    /\ (ret.op = "batch_translate" /\ ret.kind = "return") => ret.value = texts

\* the text holds the marker, or the marker's head right before a blank line
HoldsMarker(t) ==
    \/ Replace(t, Marker, <<>>) # t
    \/ Replace(t, Cat(MarkerHead, Sep), <<>>) # t

\* the round trip of the texts that hold no marker
RoundTripWithoutMarker ==
    (\A i \in 1..Len(texts) : ~HoldsMarker(texts[i])) => RoundTripLossless

(***************************************************************************)
(* translate_text window by window                                         *)
(***************************************************************************)
\* one translate_text call seen call by call of the backend: the loop's
\* retries, the parts list of the current pass, the number of the next
\* backend call of the pass, and the number of translated windows that
\* earlier passes threw away
WindowTask(text) ==
    [text |-> text, st |-> "running", retries |-> 0, parts |-> <<>>, window |-> 1,
     discarded |-> 0]

\* a pass that goes on with the parts of the failed one
PartsKept(parts) == parts

\* `parts = []` at the start of every pass over a long text
FreshParts(parts) == <<>>

\* "".join(parts): TypeError when a part is None
JoinParts(parts) ==
    IF \E k \in 1..Len(parts) : parts[k] = None THEN Raised ELSE Join(parts, <<>>)

\* a short text, one of two windows and one of three
WindowTexts ==
    {Rep("a", 2), Rep("c", size_ceiling + 1),
     Cat(Cat(Rep("a", window_size), Rep("b", window_size)), Rep("c", 1))}

InitWindowSteps ==
    /\ ParserIdle
    /\ \E t \in WindowTexts : texts = <<t>>
    /\ max_retries \in 0..MaxRetries
    /\ concurrent_requests = 1
    /\ backend = "flaky"
    /\ task = <<>>
    /\ results = <<>>
    /\ bpc = "idle"

\* translate_text(texts[1]) is called: the loop is entered
CallLongText ==
    /\ bpc = "idle"
    /\ ~IsBlank(texts[1])
    /\ task' = <<WindowTask(texts[1])>>
    /\ bpc' = "windows"
    /\ UNCHANGED <<texts, max_retries, concurrent_requests, backend, results>>
    /\ UNCHANGED parserVars
    /\ UNCHANGED downloadVars
    /\ UNCHANGED configVars

\* the pass ends with exception: sleep and start the next pass, or give the
\* original text back
PassFails ==
    LET t == task[1]
    IN IF MayRetry(t.retries + 1, max_retries)
       THEN /\ task' = <<[t EXCEPT !.retries = @ + 1, !.parts = FreshParts(t.parts),
                                   !.window = 1, !.discarded = @ + Len(t.parts)]>>
            /\ UNCHANGED <<ret, bpc>>
       ELSE /\ task' = <<[t EXCEPT !.retries = @ + 1, !.st = "returned",
                                   !.discarded = @ + Len(t.parts)]>>
            /\ ret' = Returned("translate_text", t.text)
            /\ bpc' = "done"

\* the pass ends with a return statement
PassReturns(parts, value) ==
    /\ task' = <<[task[1] EXCEPT !.st = "returned", !.parts = parts]>>
    /\ ret' = Returned("translate_text", value)
    /\ bpc' = "done"

\* one call self.translator.translate(part) and what follows it up to the
\* next call
TranslateWindow ==
    /\ bpc = "windows"
    /\ LoopCondition(task[1].retries, max_retries)
    /\ \E o \in BackendOutcomes(backend) :
          LET t == task[1]
              calls == BackendCalls(t.text)
              parts == Append(t.parts, Translate(o, calls[t.window]))
          IN IF o = "raise" THEN PassFails
             ELSE IF TextLen(t.text) <= size_ceiling
             THEN PassReturns(parts, parts[1])
             ELSE IF t.window < Len(calls)
             THEN /\ task' = <<[t EXCEPT !.parts = parts, !.window = @ + 1]>>
                  /\ UNCHANGED <<ret, bpc>>
             ELSE IF JoinParts(parts) = Raised THEN PassFails
             ELSE PassReturns(parts, JoinParts(parts))
    /\ UNCHANGED <<texts, max_retries, concurrent_requests, backend, results>>
    /\ UNCHANGED <<site_type, translation_config, soup, args, provider>>
    /\ UNCHANGED downloadVars
    /\ UNCHANGED configVars

NextWindowSteps == CallLongText \/ TranslateWindow

SpecWindowSteps == InitWindowSteps /\ [][NextWindowSteps]_vars

\* C30: when translate_text handles a text longer than 5000 characters and
\* some window fails, the parts of that pass are discarded and the next
\* pass starts again at the first window; the value returned is either the
\* concatenation of all windows as translated within one pass or the whole
\* original text, never a mix of translated and untranslated windows.
AllOrNothing ==
    /\ (bpc = "windows" /\ TextLen(texts[1]) > size_ceiling) =>
           /\ Len(task[1].parts) = task[1].window - 1
           /\ \A w \in 1..Len(task[1].parts) :
                 task[1].parts[w] \in {Tr(Windows(texts[1])[w]), <<>>, None}
    /\ (bpc = "done" /\ ret.op = "translate_text" /\ TextLen(texts[1]) > size_ceiling) =>
           LET t == task[1]
               windows == Windows(texts[1])
           IN \/ ret.value = texts[1] /\ t.retries > max_retries
              \/ /\ Len(t.parts) = Len(windows)
                 /\ \A w \in 1..Len(windows) : t.parts[w] \in {Tr(windows[w]), <<>>}
                 /\ ret.value = Join(t.parts, <<>>)

\* C30 witness: a pass over a three-window text failed after its first
\* windows had been translated, and a later pass returned the translation
\* of all three windows.
AllOrNothingWitness ==
    /\ bpc = "done"
    /\ ret.op = "translate_text"
    /\ Len(Windows(texts[1])) = 3
    /\ task[1].discarded >= 2
    /\ task[1].retries = 1
    /\ ret.value = Join([w \in 1..3 |-> Tr(Windows(texts[1])[w])], <<>>)

=============================================================================
